---------------------------- MODULE Spec2Model ----------------------------
(***************************************************************************)
(* Cookie-tray review editor (src/components/CropReview.tsx) and the part  *)
(* of the host application that feeds it (src/App.tsx, handleUploadTray,   *)
(* handleExtractCookies, renderAdminDashboard), with the event store of    *)
(* the application: the list of events, its copy in localStorage, the      *)
(* navigation between views and the voting (src/App.tsx).                  *)
(*                                                                         *)
(* Numbers.  Normalized coordinates are integers.  Pixel lengths are       *)
(* counted in units of 1/PxUnit pixel, so that the divisions by 1000 and   *)
(* by 100 of the source are exact for every integer normalized value; the  *)
(* pointer positions fed to the handlers are those whose normalized image  *)
(* is an integer.  The JavaScript doubles of the source are modelled by    *)
(* these exact values.                                                     *)
(*                                                                         *)
(* Indices.  selectedIndex is 0-based as in the source; the box at index i *)
(* is boxes[i + 1].                                                        *)
(***************************************************************************)
EXTENDS Integers, Sequences, FiniteSets, TLC

VARIABLES
    \* ---- App.tsx
    trayImage,          \* useState<string|null>          (App.tsx:109)
    detectedBoxes,      \* useState<BoundingBox[]>        (App.tsx:110)
    loading,            \* useState(false)                (App.tsx:105)
    error,              \* useState<string|null>          (App.tsx:106)
    tasks,              \* handleUploadTray calls in flight
    nUploads,           \* number of handleUploadTray calls so far
    cookies,            \* currentEvent.cookies
    categories,         \* currentEvent.categories         (App.tsx:81)
    detectedFrom,       \* the image whose detection produced detectedBoxes
    \* ---- CropReview.tsx
    boxes,              \* useState(detectedBoxes)        (CropReview.tsx:21)
    selectedIndex,      \* useState<number|null>(null)    (CropReview.tsx:22)
    selectedCategoryId, \* useState('')                   (CropReview.tsx:23)
    dragMode,           \* useState<DragMode>('none')     (CropReview.tsx:26)
    dragHandle,         \* useState<HandlePosition|null>  (CropReview.tsx:27)
    isDragging,         \* useState(false)                (CropReview.tsx:28)
    dragStart,          \* useState({x:0,y:0})            (CropReview.tsx:29)
    imgRef,             \* useRef<HTMLImageElement|null>  (CropReview.tsx:19)
    imgLoads,           \* Image() objects whose onload has not fired yet
    canvas,             \* the <canvas> element's width and height
    newCategoryName,    \* useState('')                   (CropReview.tsx:24)
    prevCategoriesLen,  \* useRef(categories.length)      (CropReview.tsx:32)
    \* ---- App.tsx: the event store and the navigation
    events,             \* useState<EventData[]>([])      (App.tsx:93)
    currentEventId,     \* useState<string|null>(null)    (App.tsx:94)
    view,               \* useState<string>('landing')    (App.tsx:97)
    newCatName,         \* useState('')                   (App.tsx:113)
    newEventName,       \* useState('')                   (App.tsx:114)
    currentVoteCategory,\* useState(0)                    (App.tsx:117)
    storage,            \* localStorage item 'cookie_events_db': <<>> when absent,
                        \* else <<text>>
    clock,              \* number of Date.now() readings that made an id
    \* ---- observation
    moveSession,        \* the move session the last pointer-down on a box body began
    last,               \* the operation that produced this state (a pointer-down
                        \* with its position, a confirm with what the host got)
    nEdits              \* number of input events the editor has handled so far

appVars    == <<trayImage, detectedBoxes, loading, error, tasks, nUploads, cookies,
                categories, detectedFrom>>
editorVars == <<boxes, selectedIndex, selectedCategoryId, dragMode, dragHandle,
                isDragging, dragStart, imgRef, imgLoads, canvas,
                newCategoryName, prevCategoriesLen, moveSession>>
storeVars  == <<events, currentEventId, view, newCatName, newEventName,
                currentVoteCategory, storage, clock>>
vars       == <<trayImage, detectedBoxes, loading, error, tasks, nUploads, cookies,
                categories, detectedFrom,
                boxes, selectedIndex, selectedCategoryId, dragMode, dragHandle,
                isDragging, dragStart, imgRef, imgLoads, canvas,
                newCategoryName, prevCategoriesLen, moveSession,
                events, currentEventId, view, newCatName, newEventName,
                currentVoteCategory, storage, clock, last, nEdits>>

----------------------------------------------------------------------------
(* Bounds of the model *)

MaxEdits == 3
MaxBoxes == 3
MaxUploads == 2
MaxClock == 2
MaxEvents == 2
MaxCookies == 2
MaxVotes == 1

----------------------------------------------------------------------------
(* Program constants *)

NormMax == 1000
MinSize == 50
HandleTol == 40
MinPadding == 20
DefaultCanvasWidth == 300
DefaultCanvasHeight == 150
NULL == -1

\* Pixel lengths are counted in 1/PxUnit pixel: with the canvas sizes below
\* (150, 300, 1000, 2000 and 4000 pixels) width * PxUnit is a multiple of 1000.
PxUnit == 4 * 5

NoImage == "null"
NoHandle == "null"

Images == {"tray-square", "tray-wide"}

naturalWidth(img) ==
    IF img = "tray-square" THEN 1000 * PxUnit
    ELSE IF img = "tray-small" THEN DefaultCanvasWidth * PxUnit
    ELSE 4000 * PxUnit
naturalHeight(img) ==
    IF img = "tray-square" THEN 1000 * PxUnit
    ELSE IF img = "tray-small" THEN 400 * PxUnit
    ELSE 2000 * PxUnit

\* INITIAL_TEMPLATE.categories, App.tsx:81-85; a name is the sequence of its
\* characters.
InitialCategories ==
    <<[id |-> "cat-1", name |-> <<"T">>],
      [id |-> "cat-2", name |-> <<"F">>],
      [id |-> "cat-3", name |-> <<"D">>]>>

----------------------------------------------------------------------------
(* JavaScript helpers *)

MathMin(a, b) == IF a < b THEN a ELSE b
MathMax(a, b) == IF a > b THEN a ELSE b
MathAbs(a) == IF a < 0 THEN -a ELSE a

Box(x1, y1, x2, y2) == [xmin |-> x1, ymin |-> y1, xmax |-> x2, ymax |-> y2]

\* box moved by (dx, dy), no clamping.
Translate(box, dx, dy) ==
    Box(box.xmin + dx, box.ymin + dy, box.xmax + dx, box.ymax + dy)

\* A box object all of whose coordinates read as NaN or undefined: what
\* handleMouseMove builds from boxes[selectedIndex] === undefined.  Every
\* comparison with it is false and every arithmetic result on it is NaN.
\* NaN is written as an integer no coordinate of the model reaches.
NaN == 0 - (NormMax * NormMax * NormMax)
NaNBox == [xmin |-> NaN, ymin |-> NaN, xmax |-> NaN, ymax |-> NaN]
\* An array hole left by newBoxes[i] = box with i > newBoxes.length.
Hole == [xmin |-> NaN - 1, ymin |-> NaN - 1, xmax |-> NaN - 1, ymax |-> NaN - 1]

IsBox(b) == b # NaNBox /\ b # Hole

BoxAt(s, i) == s[i + 1]
\* boxes[i] is an object (not undefined)
Defined(s, i) == i >= 0 /\ i < Len(s) /\ s[i + 1] # Hole

----------------------------------------------------------------------------
(* Geometry Model: CropReview.tsx:79-80 *)

normToPixel(val, max) == (val * max) \div 1000
pixelToNorm(val, max) == (val * 1000) \div max

\* The same two functions on exact fractions, for any dimension max: a number
\* is a numerator and a denominator; a zero denominator is NaN or an infinity.
Ratio(n, d) == [num |-> n, den |-> d]
\* (val / 1000) * max, val an integer
normToPixelQ(val, max) == Ratio(val * max, 1000)
\* (val / max) * 1000, val a fraction
pixelToNormQ(px, max) == Ratio(px.num * 1000, px.den * max)


----------------------------------------------------------------------------
(* Hit Tester: CropReview.tsx:145-196 *)

\* dragHandle.includes(c)
Includes(h, c) ==
    \/ h = "nw" /\ c \in {"n", "w"}
    \/ h = "ne" /\ c \in {"n", "e"}
    \/ h = "sw" /\ c \in {"s", "w"}
    \/ h = "se" /\ c \in {"s", "e"}

\* HandleHitFirst with twice the tolerance.
HandleHitDoubleTol(x, y, box, cv) ==
    LET bx  == normToPixel(box.xmin, cv.width)
        by  == normToPixel(box.ymin, cv.height)
        bw  == normToPixel(box.xmax - box.xmin, cv.width)
        bh  == normToPixel(box.ymax - box.ymin, cv.height)
        tol == (cv.width \div 1000) * HandleTol * 2
    IN  IF box = NaNBox THEN NoHandle
        ELSE IF MathAbs(x - bx) < tol /\ MathAbs(y - by) < tol THEN "nw"
        ELSE IF MathAbs(x - (bx + bw)) < tol /\ MathAbs(y - by) < tol THEN "ne"
        ELSE IF MathAbs(x - bx) < tol /\ MathAbs(y - (by + bh)) < tol THEN "sw"
        ELSE IF MathAbs(x - (bx + bw)) < tol /\ MathAbs(y - (by + bh)) < tol THEN "se"
        ELSE NoHandle

\* getHandleHit, for a box that is an object; cv is the canvas.
HandleHitFirst(x, y, box, cv) ==
    LET bx  == normToPixel(box.xmin, cv.width)
        by  == normToPixel(box.ymin, cv.height)
        bw  == normToPixel(box.xmax - box.xmin, cv.width)
        bh  == normToPixel(box.ymax - box.ymin, cv.height)
        tol == (cv.width \div 1000) * HandleTol
    IN  IF box = NaNBox THEN NoHandle
        ELSE IF MathAbs(x - bx) < tol /\ MathAbs(y - by) < tol THEN "nw"
        ELSE IF MathAbs(x - (bx + bw)) < tol /\ MathAbs(y - by) < tol THEN "ne"
        ELSE IF MathAbs(x - bx) < tol /\ MathAbs(y - (by + bh)) < tol THEN "sw"
        ELSE IF MathAbs(x - (bx + bw)) < tol /\ MathAbs(y - (by + bh)) < tol THEN "se"
        ELSE NoHandle

getHandleHit(x, y, boxIdx) == HandleHitFirst(x, y, BoxAt(boxes, boxIdx), canvas)

\* The test of CropReview.tsx:192 on one box.
InsideBox(x, y, box, cv) ==
    LET bx == normToPixel(box.xmin, cv.width)
        by == normToPixel(box.ymin, cv.height)
        bw == normToPixel(box.xmax - box.xmin, cv.width)
        bh == normToPixel(box.ymax - box.ymin, cv.height)
    IN  /\ box # NaNBox
        /\ x >= bx /\ x <= bx + bw /\ y >= by /\ y <= by + bh

\* The value the loop reading boxes[i].xmin of an array hole ends with: a TypeError.
Thrown == NULL - 1

\* The loop of CropReview.tsx:185-196, from index i downwards.
RECURSIVE ScanBoxes(_, _, _, _, _)
ScanBoxes(s, cv, x, y, i) ==
    IF i < 0 THEN NULL
    ELSE IF BoxAt(s, i) = Hole THEN Thrown
    ELSE IF InsideBox(x, y, BoxAt(s, i), cv) THEN i
    ELSE ScanBoxes(s, cv, x, y, i - 1)

\* The loop run from the first box upwards: the bottom-most box wins.
RECURSIVE ScanBoxesUp(_, _, _, _, _)
ScanBoxesUp(s, cv, x, y, i) ==
    IF i >= Len(s) THEN NULL
    ELSE IF BoxAt(s, i) = Hole THEN Thrown
    ELSE IF InsideBox(x, y, BoxAt(s, i), cv) THEN i
    ELSE ScanBoxesUp(s, cv, x, y, i + 1)

clickedIndexBottomFirst(x, y) == ScanBoxesUp(boxes, canvas, x, y, 0)

clickedIndex(x, y) == ScanBoxes(boxes, canvas, x, y, Len(boxes) - 1)

----------------------------------------------------------------------------
(* Drag / resize geometry: CropReview.tsx:223-258 *)

Clamp(v) == MathMax(0, MathMin(NormMax, v))

\* MoveBox with each side clamped on its own and no side forced after it.
MoveBoxClampEach(currentBox, dx, dy) ==
    Box(Clamp(currentBox.xmin + dx), Clamp(currentBox.ymin + dy),
        Clamp(currentBox.xmax + dx), Clamp(currentBox.ymax + dy))

\* MoveBox that, at the low boundary, keeps the far side where it was.
MoveBoxKeepFarSide(currentBox, dx, dy) ==
    LET x1 == Clamp(currentBox.xmin + dx)
        y1 == Clamp(currentBox.ymin + dy)
        x2 == Clamp(currentBox.xmax + dx)
        y2 == Clamp(currentBox.ymax + dy)
        w  == currentBox.xmax - currentBox.xmin
        h  == currentBox.ymax - currentBox.ymin
        x2a == IF x1 = 0 THEN currentBox.xmax ELSE x2
        x1a == IF x2a = NormMax THEN NormMax - w ELSE x1
        y2a == IF y1 = 0 THEN currentBox.ymax ELSE y2
        y1a == IF y2a = NormMax THEN NormMax - h ELSE y1
    IN  Box(x1a, y1a, x2a, y2a)

\* MoveBox that leaves the box where it is when a side would cross a boundary.
MoveBoxStopAtEdge(currentBox, dx, dy) ==
    IF Translate(currentBox, dx, dy) = MoveBoxClampEach(currentBox, dx, dy)
    THEN Translate(currentBox, dx, dy)
    ELSE currentBox

\* The move branch: CropReview.tsx:227-241.  The four assignments run in order.
MoveBox(currentBox, dx, dy) ==
    IF currentBox = NaNBox THEN NaNBox
    ELSE
    LET x1 == Clamp(currentBox.xmin + dx)
        y1 == Clamp(currentBox.ymin + dy)
        x2 == Clamp(currentBox.xmax + dx)
        y2 == Clamp(currentBox.ymax + dy)
        w  == currentBox.xmax - currentBox.xmin
        h  == currentBox.ymax - currentBox.ymin
        x2a == IF x1 = 0 THEN w ELSE x2
        x1a == IF x2a = NormMax THEN NormMax - w ELSE x1
        y2a == IF y1 = 0 THEN h ELSE y2
        y1a == IF y2a = NormMax THEN NormMax - h ELSE y1
    IN  Box(x1a, y1a, x2a, y2a)

\* ResizeBox without the minimum size: the moved edge follows the pointer.
ResizeBoxNoFloor(currentBox, handle, normX, normY) ==
    [currentBox EXCEPT
        !.xmin = IF Includes(handle, "w") THEN normX ELSE @,
        !.xmax = IF Includes(handle, "e") THEN normX ELSE @,
        !.ymin = IF Includes(handle, "n") THEN normY ELSE @,
        !.ymax = IF Includes(handle, "s") THEN normY ELSE @]

\* ResizeBox that follows the pointer on the x axis only.
ResizeBoxHorizontalOnly(currentBox, handle, normX, normY) ==
    IF currentBox = NaNBox THEN NaNBox
    ELSE
    LET b1 == IF Includes(handle, "w")
              THEN [currentBox EXCEPT !.xmin = MathMin(normX, currentBox.xmax - MinSize)]
              ELSE currentBox
        b2 == IF Includes(handle, "e")
              THEN [b1 EXCEPT !.xmax = MathMax(normX, b1.xmin + MinSize)]
              ELSE b1
    IN  b2

\* The resize branch: CropReview.tsx:250-255.
ResizeBox(currentBox, handle, normX, normY) ==
    IF currentBox = NaNBox THEN NaNBox
    ELSE
    LET b1 == IF Includes(handle, "w")
              THEN [currentBox EXCEPT !.xmin = MathMin(normX, currentBox.xmax - MinSize)]
              ELSE currentBox
        b2 == IF Includes(handle, "e")
              THEN [b1 EXCEPT !.xmax = MathMax(normX, b1.xmin + MinSize)]
              ELSE b1
        b3 == IF Includes(handle, "n")
              THEN [b2 EXCEPT !.ymin = MathMin(normY, b2.ymax - MinSize)]
              ELSE b2
        b4 == IF Includes(handle, "s")
              THEN [b3 EXCEPT !.ymax = MathMax(normY, b3.ymin + MinSize)]
              ELSE b3
    IN  b4

\* newBoxes[i] = b on a copy of s; an index past the end leaves holes.
ArraySet(s, i, b) ==
    IF i < Len(s) THEN [s EXCEPT ![i + 1] = b]
    ELSE [k \in 1..(i + 1) |-> IF k <= Len(s) THEN s[k] ELSE IF k = i + 1 THEN b ELSE Hole]

\* FilterOut that drops the last box, whichever index is selected.
FilterOutLast(s, sel, k) == SubSeq(s, 1, Len(s) - 1)

\* boxes.filter((_, i) => i !== selectedIndex); filter also drops holes.
RECURSIVE FilterOut(_, _, _)
FilterOut(s, sel, k) ==
    IF k > Len(s) THEN <<>>
    ELSE IF k - 1 = sel \/ s[k] = Hole THEN FilterOut(s, sel, k + 1)
    ELSE <<s[k]>> \o FilterOut(s, sel, k + 1)

----------------------------------------------------------------------------
(* The event store: App.tsx:77-89, 93-94, 119-145, 163-168 *)

\* The ids made from Date.now(): clock readings are told apart by their
\* number t, written into the id.
EventId(t) == "event-t" \o ToString(t)
CookieId(t, idx) == "cookie-t" \o ToString(t) \o "-" \o ToString(idx)
CatId(t) == "cat-t" \o ToString(t)

\* newEvent of handleCreateEvent, App.tsx:174-178: INITIAL_TEMPLATE with an id
\* and a name.
NewEvent(id, name) ==
    [id |-> id, name |-> name, bakers |-> <<>>, categories |-> InitialCategories,
     cookies |-> <<>>, votes |-> <<>>, status |-> "setup"]

\* The index of the first element of evs with this id, 0 when there is none.
FindEvent(evs, id) ==
    IF \E i \in 1..Len(evs) : evs[i].id = id
    THEN CHOOSE i \in 1..Len(evs) :
             evs[i].id = id /\ \A j \in 1..(i - 1) : evs[j].id # id
    ELSE 0

\* currentEvent, App.tsx:120-122, is defined.
HasCurrentEvent == FindEvent(events, currentEventId) # 0
CurrentEvent == events[FindEvent(events, currentEventId)]

\* The lists the dashboard and the review read from currentEvent.
CookiesOf(evs, id) == IF FindEvent(evs, id) = 0 THEN <<>> ELSE evs[FindEvent(evs, id)].cookies
CategoriesOf(evs, id) ==
    IF FindEvent(evs, id) = 0 THEN <<>> ELSE evs[FindEvent(evs, id)].categories

\* updateCurrentEvent, App.tsx:163-168: the event list setEvents is left with.
updateCurrentEvent(updater(_)) ==
    IF currentEventId = "null" THEN events
    ELSE [i \in 1..Len(events) |->
             IF events[i].id = currentEventId THEN updater(events[i]) ELSE events[i]]

\* JSON values: a string, a number, null.
JsonString(s) == [type |-> "string", str |-> s, num |-> 0]
JsonNumber(n) == [type |-> "number", str |-> "", num |-> n]
JsonNull == [type |-> "null", str |-> "", num |-> 0]
\* An id that may be null.
JsonId(id) == IF id = "null" THEN JsonNull ELSE JsonString(id)
\* A name: the string of its characters.
JsonName(name) == [type |-> "string", chars |-> name]

\* JSON.stringify(events), App.tsx:143: every own property of every object,
\* arrays in order.
JSONStringify(evs) ==
    [i \in 1..Len(evs) |->
        [id |-> JsonString(evs[i].id),
         name |-> JsonName(evs[i].name),
         bakers |-> evs[i].bakers,
         categories |-> [k \in 1..Len(evs[i].categories) |->
             [id |-> JsonString(evs[i].categories[k].id),
              name |-> JsonName(evs[i].categories[k].name)]],
         cookies |-> [k \in 1..Len(evs[i].cookies) |->
             [id |-> JsonString(evs[i].cookies[k].id),
              imageUrl |-> evs[i].cookies[k].imageUrl,
              bakerId |-> JsonId(evs[i].cookies[k].bakerId),
              categoryId |-> JsonId(evs[i].cookies[k].categoryId),
              votes |-> JsonNumber(evs[i].cookies[k].votes)]],
         votes |-> [k \in 1..Len(evs[i].votes) |->
             [categoryId |-> JsonString(evs[i].votes[k].categoryId),
              cookieId |-> JsonString(evs[i].votes[k].cookieId)]],
         status |-> JsonString(evs[i].status)]]

\* The value JSON.parse gives for a JSON string, number or null.
FromJson(v) ==
    IF v.type = "null" THEN "null"
    ELSE IF v.type = "number" THEN v.num
    ELSE v.str

\* JSON.parse(saved), App.tsx:129, of a text written by JSONStringify.
JSONParse(text) ==
    [i \in 1..Len(text) |->
        [id |-> FromJson(text[i].id),
         name |-> text[i].name.chars,
         bakers |-> text[i].bakers,
         categories |-> [k \in 1..Len(text[i].categories) |->
             [id |-> FromJson(text[i].categories[k].id),
              name |-> text[i].categories[k].name.chars]],
         cookies |-> [k \in 1..Len(text[i].cookies) |->
             [id |-> FromJson(text[i].cookies[k].id),
              imageUrl |-> text[i].cookies[k].imageUrl,
              bakerId |-> FromJson(text[i].cookies[k].bakerId),
              categoryId |-> FromJson(text[i].cookies[k].categoryId),
              votes |-> FromJson(text[i].cookies[k].votes)]],
         votes |-> [k \in 1..Len(text[i].votes) |->
             [categoryId |-> FromJson(text[i].votes[k].categoryId),
              cookieId |-> FromJson(text[i].votes[k].cookieId)]],
         status |-> FromJson(text[i].status)]]

\* The effect of App.tsx:141-145, run by the render that follows setEvents:
\* the item it leaves in localStorage.
PersistEffect(evs, stored) == IF Len(evs) > 0 THEN <<JSONStringify(evs)>> ELSE stored

\* The effect of App.tsx:125-139 on mount: the list setEvents is given.  The
\* application only ever stores arrays.
LoadEffect(stored) == IF stored = <<>> THEN <<>> ELSE JSONParse(stored[1])

----------------------------------------------------------------------------
(* Exporter: CropReview.tsx:292-322 *)

\* CropRegion with the padding naturalWidth / 100, without the minimum of 20.
CropRegionSmallPadding(box, img) ==
    LET w  == ((box.xmax - box.xmin) * naturalWidth(img)) \div 1000
        h  == ((box.ymax - box.ymin) * naturalHeight(img)) \div 1000
        x  == (box.xmin * naturalWidth(img)) \div 1000
        y  == (box.ymin * naturalHeight(img)) \div 1000
        padding == naturalWidth(img) \div 100
        sx == MathMax(0, x - padding)
        sy == MathMax(0, y - padding)
        sw == MathMin(naturalWidth(img) - sx, w + padding * 2)
        sh == MathMin(naturalHeight(img) - sy, h + padding * 2)
    IN  [img |-> img, sx |-> sx, sy |-> sy, sw |-> sw, sh |-> sh]

\* CropRegion without the clamps to the image: the padded rectangle as it is.
CropRegionUnclamped(box, img) ==
    LET w  == ((box.xmax - box.xmin) * naturalWidth(img)) \div 1000
        h  == ((box.ymax - box.ymin) * naturalHeight(img)) \div 1000
        x  == (box.xmin * naturalWidth(img)) \div 1000
        y  == (box.ymin * naturalHeight(img)) \div 1000
        padding == MathMax(MinPadding * PxUnit, naturalWidth(img) \div 100)
    IN  [img |-> img, sx |-> x - padding, sy |-> y - padding,
         sw |-> w + padding * 2, sh |-> h + padding * 2]

\* One iteration of the forEach of handleProcess: the source rectangle
\* (sx, sy, sw, sh) of image img that drawImage copies for box.
CropRegion(box, img) ==
    IF box = NaNBox
    THEN [img |-> img, sx |-> NaN, sy |-> NaN, sw |-> NaN, sh |-> NaN]
    ELSE
    LET w  == ((box.xmax - box.xmin) * naturalWidth(img)) \div 1000
        h  == ((box.ymax - box.ymin) * naturalHeight(img)) \div 1000
        x  == (box.xmin * naturalWidth(img)) \div 1000
        y  == (box.ymin * naturalHeight(img)) \div 1000
        padding == MathMax(MinPadding * PxUnit, naturalWidth(img) \div 100)
        sx == MathMax(0, x - padding)
        sy == MathMax(0, y - padding)
        sw == MathMin(naturalWidth(img) - sx, w + padding * 2)
        sh == MathMin(naturalHeight(img) - sy, h + padding * 2)
    IN  [img |-> img, sx |-> sx, sy |-> sy, sw |-> sw, sh |-> sh]

\* CropAll with each crop put in front of the earlier ones.
RECURSIVE CropAllReversed(_, _, _)
CropAllReversed(s, img, k) ==
    IF k > Len(s) THEN <<>>
    ELSE IF s[k] = Hole THEN CropAllReversed(s, img, k + 1)
    ELSE CropAllReversed(s, img, k + 1) \o <<CropRegion(s[k], img)>>

\* boxes.forEach(...): one crop pushed per element, in order; holes are skipped.
RECURSIVE CropAll(_, _, _)
CropAll(s, img, k) ==
    IF k > Len(s) THEN <<>>
    ELSE IF s[k] = Hole THEN CropAll(s, img, k + 1)
    ELSE <<CropRegion(s[k], img)>> \o CropAll(s, img, k + 1)

\* selectedCategoryId || null
CategoryOrNull(id) == IF id = "" THEN "null" ELSE id

\* NewCookies with the cookies made in the reverse of the crop order.
NewCookiesReversed(croppedImages, defaultCategoryId) ==
    [k \in 1..Len(croppedImages) |->
        [id |-> CookieId(clock + 1, k - 1),
         imageUrl |-> croppedImages[Len(croppedImages) + 1 - k], bakerId |-> "null",
         categoryId |-> defaultCategoryId, votes |-> 0]]

\* handleExtractCookies: croppedImages.map(...), App.tsx:221-227
NewCookies(croppedImages, defaultCategoryId) ==
    [k \in 1..Len(croppedImages) |->
        [id |-> CookieId(clock + 1, k - 1), imageUrl |-> croppedImages[k],
         bakerId |-> "null", categoryId |-> defaultCategoryId, votes |-> 0]]

----------------------------------------------------------------------------
(* Mounting: App.tsx:362-381 renders CropReview while trayImage is set and *)
(* detectedBoxes is not empty.                                             *)

ReviewOpen == trayImage # NoImage /\ Len(detectedBoxes) > 0

DefaultCanvas == [width |-> DefaultCanvasWidth * PxUnit, height |-> DefaultCanvasHeight * PxUnit]

\* No move session has begun.
IdleSession ==
    [index |-> NULL, box |-> NaNBox, down |-> <<0, 0>>, at |-> <<0, 0>>, clamped |-> FALSE]

Event(op, x, y, threw) ==
    [op |-> op, x |-> x, y |-> y, threw |-> threw, called |-> FALSE,
     crops |-> <<>>, cat |-> "null", name |-> <<>>]

\* The component's state after its first render and effects (CropReview.tsx:18-55).
MountEditor(det, img) ==
    /\ boxes' = det
    /\ selectedIndex' = NULL
    /\ selectedCategoryId' = ""
    /\ dragMode' = "none"
    /\ dragHandle' = NoHandle
    /\ isDragging' = FALSE
    /\ dragStart' = [x |-> 0, y |-> 0]
    /\ imgRef' = NoImage
    /\ imgLoads' = {img}
    /\ canvas' = DefaultCanvas
    /\ newCategoryName' = <<>>
    /\ prevCategoriesLen' = Len(categories)
    /\ moveSession' = IdleSession

\* No CropReview is rendered: its state is gone.
UnmountEditor ==
    /\ boxes' = <<>>
    /\ selectedIndex' = NULL
    /\ selectedCategoryId' = ""
    /\ dragMode' = "none"
    /\ dragHandle' = NoHandle
    /\ isDragging' = FALSE
    /\ dragStart' = [x |-> 0, y |-> 0]
    /\ imgRef' = NoImage
    /\ imgLoads' = {}
    /\ canvas' = DefaultCanvas
    /\ newCategoryName' = <<>>
    /\ prevCategoriesLen' = 0
    /\ moveSession' = IdleSession

\* The render that follows a change of trayImage / detectedBoxes to tray2 / det2;
\* detSet: setDetectedBoxes was called (with a new array).  While the review
\* stays open the effects of CropReview.tsx:44-46 and 48-55 run.
RenderApp(tray2, det2, detSet) ==
    IF ~(tray2 # NoImage /\ Len(det2) > 0) THEN UnmountEditor
    ELSE IF ~ReviewOpen THEN MountEditor(det2, tray2)
    ELSE /\ boxes' = IF detSet THEN det2 ELSE boxes
         /\ imgLoads' = IF tray2 # trayImage THEN imgLoads \cup {tray2} ELSE imgLoads
         /\ UNCHANGED <<selectedIndex, selectedCategoryId, dragMode, dragHandle,
                        isDragging, dragStart, imgRef, canvas,
                        newCategoryName, prevCategoriesLen, moveSession>>

----------------------------------------------------------------------------
(* CropReview event handlers *)

\* DownTarget with the box bodies tested before the handles of the selected box.
DownTargetBodyFirst(x, y) ==
    LET stale  == selectedIndex # NULL /\ ~Defined(boxes, selectedIndex)
        handle == IF selectedIndex # NULL /\ ~stale
                  THEN getHandleHit(x, y, selectedIndex) ELSE NoHandle
        hit    == clickedIndex(x, y)
    IN  IF stale \/ hit = Thrown THEN [kind |-> "throw", handle |-> NoHandle, index |-> NULL]
        ELSE IF hit # NULL THEN [kind |-> "body", handle |-> NoHandle, index |-> hit]
        ELSE IF handle # NoHandle THEN [kind |-> "handle", handle |-> handle, index |-> NULL]
        ELSE [kind |-> "none", handle |-> NoHandle, index |-> NULL]

\* DownTarget that takes the last box when the point is in no box.
DownTargetSnapToLast(x, y) ==
    LET stale  == selectedIndex # NULL /\ ~Defined(boxes, selectedIndex)
        handle == IF selectedIndex # NULL /\ ~stale
                  THEN getHandleHit(x, y, selectedIndex) ELSE NoHandle
        hit    == clickedIndex(x, y)
    IN  IF stale THEN [kind |-> "throw", handle |-> NoHandle, index |-> NULL]
        ELSE IF handle # NoHandle THEN [kind |-> "handle", handle |-> handle, index |-> NULL]
        ELSE IF hit = Thrown THEN [kind |-> "throw", handle |-> NoHandle, index |-> NULL]
        ELSE IF hit # NULL THEN [kind |-> "body", handle |-> NoHandle, index |-> hit]
        ELSE IF Len(boxes) > 0
        THEN [kind |-> "body", handle |-> NoHandle, index |-> Len(boxes) - 1]
        ELSE [kind |-> "none", handle |-> NoHandle, index |-> NULL]

\* What a pointer-down at canvas pixel (x, y) lands on, CropReview.tsx:171-196:
\* first the handles of the selected box, then the box bodies from the last
\* box down.  "throw": the handler reads a field of undefined.
DownTarget(x, y) ==
    LET stale  == selectedIndex # NULL /\ ~Defined(boxes, selectedIndex)
        handle == IF selectedIndex # NULL /\ ~stale
                  THEN getHandleHit(x, y, selectedIndex) ELSE NoHandle
        hit    == clickedIndex(x, y)
    IN  IF stale THEN [kind |-> "throw", handle |-> NoHandle, index |-> NULL]
        ELSE IF handle # NoHandle THEN [kind |-> "handle", handle |-> handle, index |-> NULL]
        ELSE IF hit = Thrown THEN [kind |-> "throw", handle |-> NoHandle, index |-> NULL]
        ELSE IF hit # NULL THEN [kind |-> "body", handle |-> NoHandle, index |-> hit]
        ELSE [kind |-> "none", handle |-> NoHandle, index |-> NULL]

\* handleMouseDown, CropReview.tsx:165-206.  (x, y) = getCanvasCoordinates(e).
handleMouseDown(x, y) ==
    /\ ReviewOpen
    /\ UNCHANGED storeVars
    /\ nEdits < MaxEdits
    /\ nEdits' = nEdits + 1
    /\ UNCHANGED appVars
    /\ UNCHANGED <<newCategoryName, prevCategoriesLen>>
    /\ UNCHANGED <<boxes, selectedCategoryId, imgRef, imgLoads, canvas>>
    /\ LET target == DownTarget(x, y)
           norm == <<pixelToNorm(x, canvas.width), pixelToNorm(y, canvas.height)>>
       IN  /\ last' = Event("down", x, y, target.kind = "throw")
           /\ moveSession' =
                  IF target.kind = "body"
                  THEN [index |-> target.index, box |-> BoxAt(boxes, target.index),
                        down |-> norm, at |-> norm, clamped |-> FALSE]
                  ELSE moveSession
           /\ IF target.kind = "throw"
              THEN UNCHANGED <<selectedIndex, dragMode, dragHandle, isDragging, dragStart>>
              ELSE IF target.kind = "handle"
              THEN /\ dragMode' = "resize"
                   /\ dragHandle' = target.handle
                   /\ isDragging' = TRUE
                   /\ UNCHANGED <<selectedIndex, dragStart>>
              ELSE IF target.kind = "body"
              THEN /\ selectedIndex' = target.index
                   /\ dragMode' = "move"
                   /\ isDragging' = TRUE
                   /\ dragStart' = [x |-> x, y |-> y]
                   /\ UNCHANGED dragHandle
              ELSE /\ selectedIndex' = NULL
                   /\ UNCHANGED <<dragMode, dragHandle, isDragging, dragStart>>

\* handleMouseMove, CropReview.tsx:208-261.
handleMouseMove(x, y) ==
    /\ ReviewOpen
    /\ UNCHANGED storeVars
    /\ nEdits < MaxEdits
    /\ nEdits' = nEdits + 1
    /\ UNCHANGED appVars
    /\ UNCHANGED <<newCategoryName, prevCategoriesLen>>
    /\ UNCHANGED <<selectedIndex, selectedCategoryId, dragMode, dragHandle, isDragging,
                   imgRef, imgLoads, canvas>>
    /\ IF ~isDragging \/ selectedIndex = NULL
       THEN /\ last' = Event("move", 0, 0, FALSE)
            /\ UNCHANGED <<boxes, dragStart, moveSession>>
       ELSE LET undef == ~Defined(boxes, selectedIndex)
                currentBox == IF undef THEN NaNBox ELSE BoxAt(boxes, selectedIndex)
            IN  IF dragMode = "move"
                THEN IF undef
                     THEN \* currentBox.xmin of undefined
                          /\ last' = Event("move", 0, 0, TRUE)
                          /\ UNCHANGED <<boxes, dragStart, moveSession>>
                     ELSE LET dx == pixelToNorm(x - dragStart.x, canvas.width)
                              dy == pixelToNorm(y - dragStart.y, canvas.height)
                          IN  /\ boxes' = ArraySet(boxes, selectedIndex, MoveBox(currentBox, dx, dy))
                              /\ dragStart' = [x |-> x, y |-> y]
                              /\ last' = Event("move", x, y, FALSE)
                              /\ moveSession' =
                                     [moveSession EXCEPT
                                        !.at = <<pixelToNorm(x, canvas.width),
                                                 pixelToNorm(y, canvas.height)>>,
                                        !.clamped = @ \/ (MoveBox(currentBox, dx, dy)
                                                            # Translate(currentBox, dx, dy))]
                ELSE IF dragMode = "resize" /\ dragHandle # NoHandle
                THEN LET normX == Clamp(pixelToNorm(x, canvas.width))
                         normY == Clamp(pixelToNorm(y, canvas.height))
                     IN  /\ boxes' = ArraySet(boxes, selectedIndex,
                                              ResizeBox(currentBox, dragHandle, normX, normY))
                         /\ last' = Event("move", x, y, FALSE)
                         /\ UNCHANGED <<dragStart, moveSession>>
                ELSE /\ last' = Event("move", 0, 0, FALSE)
                     /\ UNCHANGED <<boxes, dragStart, moveSession>>

\* handleMouseUp that also clears the selection.
handleMouseUpClearsSelection ==
    /\ ReviewOpen
    /\ UNCHANGED storeVars
    /\ nEdits < MaxEdits
    /\ nEdits' = nEdits + 1
    /\ isDragging' = FALSE
    /\ dragMode' = "none"
    /\ dragHandle' = NoHandle
    /\ selectedIndex' = NULL
    /\ last' = Event("up", 0, 0, FALSE)
    /\ UNCHANGED appVars
    /\ UNCHANGED <<newCategoryName, prevCategoriesLen, moveSession>>
    /\ UNCHANGED <<boxes, selectedCategoryId, dragStart, imgRef, imgLoads, canvas>>

\* handleMouseUp that leaves the drag session as it is.
handleMouseUpKeepsDragging ==
    /\ ReviewOpen
    /\ UNCHANGED storeVars
    /\ nEdits < MaxEdits
    /\ nEdits' = nEdits + 1
    /\ last' = Event("up", 0, 0, FALSE)
    /\ UNCHANGED appVars
    /\ UNCHANGED <<newCategoryName, prevCategoriesLen, moveSession>>
    /\ UNCHANGED <<boxes, selectedIndex, selectedCategoryId, dragMode, dragHandle,
                   isDragging, dragStart, imgRef, imgLoads, canvas>>

\* handleMouseUp, CropReview.tsx:263-267; also bound to mouseleave and touchend.
handleMouseUp ==
    /\ ReviewOpen
    /\ UNCHANGED storeVars
    /\ nEdits < MaxEdits
    /\ nEdits' = nEdits + 1
    /\ isDragging' = FALSE
    /\ dragMode' = "none"
    /\ dragHandle' = NoHandle
    /\ last' = Event("up", 0, 0, FALSE)
    /\ UNCHANGED appVars
    /\ UNCHANGED <<newCategoryName, prevCategoriesLen, moveSession>>
    /\ UNCHANGED <<boxes, selectedIndex, selectedCategoryId, dragStart, imgRef, imgLoads, canvas>>

\* handleAddBox with the new box put in front of the collection.
handleAddBoxInFront ==
    /\ ReviewOpen
    /\ UNCHANGED storeVars
    /\ nEdits < MaxEdits
    /\ Len(boxes) < MaxBoxes
    /\ nEdits' = nEdits + 1
    /\ boxes' = <<Box(400, 400, 600, 600)>> \o boxes
    /\ selectedIndex' = Len(boxes)
    /\ last' = Event("add", 0, 0, FALSE)
    /\ UNCHANGED appVars
    /\ UNCHANGED <<newCategoryName, prevCategoriesLen, moveSession>>
    /\ UNCHANGED <<selectedCategoryId, dragMode, dragHandle, isDragging, dragStart,
                   imgRef, imgLoads, canvas>>

\* handleAddBox, CropReview.tsx:269-276.
handleAddBox ==
    /\ ReviewOpen
    /\ UNCHANGED storeVars
    /\ nEdits < MaxEdits
    /\ Len(boxes) < MaxBoxes
    /\ nEdits' = nEdits + 1
    /\ boxes' = Append(boxes, Box(400, 400, 600, 600))
    /\ selectedIndex' = Len(boxes)
    /\ last' = Event("add", 0, 0, FALSE)
    /\ UNCHANGED appVars
    /\ UNCHANGED <<newCategoryName, prevCategoriesLen, moveSession>>
    /\ UNCHANGED <<selectedCategoryId, dragMode, dragHandle, isDragging, dragStart,
                   imgRef, imgLoads, canvas>>

\* handleDeleteBox, CropReview.tsx:278-283.
handleDeleteBox ==
    /\ ReviewOpen
    /\ UNCHANGED storeVars
    /\ nEdits < MaxEdits
    /\ nEdits' = nEdits + 1
    /\ last' = Event("delete", 0, 0, FALSE)
    /\ UNCHANGED appVars
    /\ UNCHANGED <<newCategoryName, prevCategoriesLen, moveSession>>
    /\ UNCHANGED <<selectedCategoryId, dragMode, dragHandle, isDragging, dragStart,
                   imgRef, imgLoads, canvas>>
    /\ IF selectedIndex = NULL
       THEN UNCHANGED <<boxes, selectedIndex>>
       ELSE /\ boxes' = FilterOut(boxes, selectedIndex, 1)
            /\ selectedIndex' = NULL

\* The <select> of CropReview.tsx:358-367.
setSelectedCategoryId(id) ==
    /\ ReviewOpen
    /\ UNCHANGED storeVars
    /\ nEdits < MaxEdits
    /\ nEdits' = nEdits + 1
    /\ id # selectedCategoryId
    /\ selectedCategoryId' = id
    /\ last' = Event("category", 0, 0, FALSE)
    /\ UNCHANGED appVars
    /\ UNCHANGED <<newCategoryName, prevCategoriesLen, moveSession>>
    /\ UNCHANGED <<boxes, selectedIndex, dragMode, dragHandle, isDragging, dragStart,
                   imgRef, imgLoads, canvas>>

\* String.prototype.trim on a name given as the sequence of its characters.
RECURSIVE TrimStart(_)
TrimStart(name) ==
    IF name # <<>> /\ Head(name) = " " THEN TrimStart(Tail(name)) ELSE name

RECURSIVE TrimEnd(_)
TrimEnd(name) ==
    IF name # <<>> /\ name[Len(name)] = " "
    THEN TrimEnd(SubSeq(name, 1, Len(name) - 1))
    ELSE name

Trim(name) == TrimEnd(TrimStart(name))

\* CategoriesEffect that never selects.
CategoriesEffectKeep(cats, prevLen, selected) == selected

\* The effect of CropReview.tsx:34-41 run on the list cats: the selected
\* category it leaves.
CategoriesEffect(cats, prevLen, selected) ==
    IF Len(cats) > prevLen /\ Len(cats) > 0 THEN cats[Len(cats)].id ELSE selected

\* onAddCategory, App.tsx:373-378.
onAddCategory(cats, name) ==
    Append(cats, [id |-> CatId(clock + 1), name |-> name])

\* The text input of CropReview.tsx:375-382.
setNewCategoryName(name) ==
    /\ ReviewOpen
    /\ UNCHANGED storeVars
    /\ nEdits < MaxEdits
    /\ nEdits' = nEdits + 1
    /\ name # newCategoryName
    /\ newCategoryName' = name
    /\ last' = Event("name", 0, 0, FALSE)
    /\ UNCHANGED appVars
    /\ UNCHANGED <<boxes, selectedIndex, selectedCategoryId, dragMode, dragHandle,
                   isDragging, dragStart, imgRef, imgLoads, canvas, prevCategoriesLen,
                   moveSession>>

\* handleCreateCategory, CropReview.tsx:285-290 (the Add button and the Enter
\* key of the input), with the host's onAddCategory and the effect of
\* CropReview.tsx:34-41 that the render with the new list runs.
handleCreateCategory ==
    /\ ReviewOpen
    /\ nEdits < MaxEdits
    /\ nEdits' = nEdits + 1
    /\ UNCHANGED <<trayImage, detectedBoxes, loading, error, tasks, nUploads, cookies,
                   detectedFrom>>
    /\ UNCHANGED <<boxes, selectedIndex, dragMode, dragHandle, isDragging, dragStart,
                   imgRef, imgLoads, canvas, moveSession>>
    /\ IF Trim(newCategoryName) # <<>>
       THEN /\ events' = updateCurrentEvent(LAMBDA prev :
                   [prev EXCEPT !.categories =
                                    onAddCategory(prev.categories, Trim(newCategoryName))])
            /\ categories' = CategoriesOf(events', currentEventId)
            /\ storage' = PersistEffect(events', storage)
            /\ clock' = clock + 1
            /\ UNCHANGED <<currentEventId, view, newCatName, newEventName,
                           currentVoteCategory>>
            /\ newCategoryName' = <<>>
            /\ selectedCategoryId' =
                   CategoriesEffect(categories', prevCategoriesLen, selectedCategoryId)
            /\ prevCategoriesLen' = Len(categories')
            /\ last' = [Event("create", 0, 0, FALSE) EXCEPT
                           !.called = TRUE, !.name = Trim(newCategoryName)]
       ELSE /\ last' = Event("create", 0, 0, FALSE)
            /\ UNCHANGED <<categories, newCategoryName, selectedCategoryId,
                           prevCategoriesLen>>
            /\ UNCHANGED storeVars

\* draw(), CropReview.tsx:89-93: the only state it changes is the canvas size.
DrawCanvas(cv, img) ==
    IF img # NoImage /\ cv.width # naturalWidth(img)
    THEN [width |-> naturalWidth(img), height |-> naturalHeight(img)]
    ELSE cv

\* img.onload, CropReview.tsx:50-53.
imgOnload(img) ==
    /\ ReviewOpen
    /\ UNCHANGED storeVars
    /\ img \in imgLoads
    /\ imgLoads' = imgLoads \ {img}
    /\ imgRef' = img
    /\ canvas' = DrawCanvas(canvas, img)
    /\ last' = Event("load", 0, 0, FALSE)
    /\ UNCHANGED appVars
    /\ UNCHANGED <<newCategoryName, prevCategoriesLen, moveSession>>
    /\ UNCHANGED <<boxes, selectedIndex, selectedCategoryId, dragMode, dragHandle,
                   isDragging, dragStart, nEdits>>

\* handleExtractCookies, App.tsx:220-232, the review's onConfirm, with the
\* persistence effect and the unmounting of the review that its render brings.
handleExtractCookies(croppedImages, defaultCategoryId) ==
    /\ events' = updateCurrentEvent(LAMBDA prev :
           [prev EXCEPT !.cookies =
                            prev.cookies \o NewCookies(croppedImages, defaultCategoryId)])
    /\ cookies' = CookiesOf(events', currentEventId)
    /\ storage' = PersistEffect(events', storage)
    /\ clock' = clock + 1
    /\ UNCHANGED <<currentEventId, view, newCatName, newEventName, currentVoteCategory>>
    /\ trayImage' = NoImage
    /\ detectedBoxes' = <<>>
    /\ detectedFrom' = NoImage
    /\ UnmountEditor

\* handleProcess that returns without calling the host when there is no box.
handleProcessNeedsBoxes ==
    /\ ReviewOpen
    /\ UNCHANGED <<loading, error, tasks, nUploads, categories, nEdits>>
    /\ IF imgRef = NoImage \/ boxes = <<>>
       THEN /\ last' = Event("confirm", 0, 0, FALSE)
            /\ UNCHANGED <<trayImage, detectedBoxes, detectedFrom, cookies>>
            /\ UNCHANGED editorVars
            /\ UNCHANGED storeVars
       ELSE LET cropped == CropAll(boxes, imgRef, 1)
                cat == CategoryOrNull(selectedCategoryId)
            IN  /\ last' = [Event("confirm", 0, 0, FALSE) EXCEPT
                               !.called = TRUE, !.crops = cropped, !.cat = cat]
                /\ handleExtractCookies(cropped, cat)

\* handleProcess, CropReview.tsx:292-322, with the host's onConfirm =
\* handleExtractCookies, App.tsx:220-232.
handleProcess ==
    /\ ReviewOpen
    /\ UNCHANGED <<loading, error, tasks, nUploads, categories, nEdits>>
    /\ IF imgRef = NoImage
       THEN /\ last' = Event("confirm", 0, 0, FALSE)
            /\ UNCHANGED <<trayImage, detectedBoxes, detectedFrom, cookies>>
            /\ UNCHANGED editorVars
            /\ UNCHANGED storeVars
       ELSE LET cropped == CropAll(boxes, imgRef, 1)
                cat == CategoryOrNull(selectedCategoryId)
            IN  /\ last' = [Event("confirm", 0, 0, FALSE) EXCEPT
                               !.called = TRUE, !.crops = cropped, !.cat = cat]
                /\ handleExtractCookies(cropped, cat)

\* onCancel that drops the tray image and keeps the detected boxes.
onCancelKeepsBoxes ==
    /\ ReviewOpen
    /\ UNCHANGED storeVars
    /\ trayImage' = NoImage
    /\ UnmountEditor
    /\ last' = Event("cancel", 0, 0, FALSE)
    /\ UNCHANGED <<detectedBoxes, detectedFrom, loading, error, tasks, nUploads, cookies,
                   categories, nEdits>>

\* onCancel, App.tsx:372.
onCancel ==
    /\ ReviewOpen
    /\ UNCHANGED storeVars
    /\ trayImage' = NoImage
    /\ detectedBoxes' = <<>>
    /\ detectedFrom' = NoImage
    /\ UnmountEditor
    /\ last' = Event("cancel", 0, 0, FALSE)
    /\ UNCHANGED <<loading, error, tasks, nUploads, cookies, categories, nEdits>>

----------------------------------------------------------------------------
(* App.tsx: tray upload *)

\* handleUploadTray up to reader.readAsDataURL(file), App.tsx:193-217.  The file
\* input is part of the dashboard, which is rendered while no review is open.
handleUploadTray(file) ==
    /\ ~ReviewOpen
    /\ UNCHANGED storeVars
    /\ nUploads < MaxUploads
    /\ nUploads' = nUploads + 1
    /\ loading' = TRUE
    /\ error' = "null"
    /\ tasks' = tasks \cup {[id |-> nUploads + 1, img |-> file, phase |-> "reading"]}
    /\ last' = Event("upload", 0, 0, FALSE)
    /\ UNCHANGED <<trayImage, detectedBoxes, detectedFrom, cookies, categories, nEdits>>
    /\ UNCHANGED editorVars

\* reader.onload up to the await, App.tsx:201-206.
readerOnload(t) ==
    /\ t \in tasks
    /\ UNCHANGED storeVars
    /\ t.phase = "reading"
    /\ trayImage' = t.img
    /\ tasks' = (tasks \ {t}) \cup {[t EXCEPT !.phase = "detecting"]}
    /\ RenderApp(t.img, detectedBoxes, FALSE)
    /\ last' = Event("read", 0, 0, FALSE)
    /\ UNCHANGED <<detectedBoxes, detectedFrom, loading, error, nUploads, cookies,
                   categories, nEdits>>

\* The continuation after await detectCookies(base64), App.tsx:206-215.
\* detectCookies catches every error and returns [] (App.tsx:747-750), so the
\* catch of handleUploadTray is never entered.
detectReturn(t, found) ==
    /\ t \in tasks
    /\ UNCHANGED storeVars
    /\ t.phase = "detecting"
    /\ error' = IF Len(found) = 0 THEN "none-detected" ELSE error
    /\ detectedBoxes' = found
    /\ detectedFrom' = t.img
    /\ loading' = FALSE
    /\ tasks' = tasks \ {t}
    /\ RenderApp(trayImage, found, TRUE)
    /\ last' = Event("detect", 0, 0, FALSE)
    /\ UNCHANGED <<trayImage, nUploads, cookies, categories, nEdits>>

----------------------------------------------------------------------------
(* App.tsx: events, navigation, dashboard lists and voting.  These handlers *)
(* run while no review is open; no baker is modelled.                       *)

\* What every handler of this section leaves alone, and the lists read from
\* currentEvent by the render that follows it.
StoreFrame ==
    /\ cookies' = CookiesOf(events', currentEventId')
    /\ categories' = CategoriesOf(events', currentEventId')
    /\ UNCHANGED <<trayImage, detectedBoxes, loading, error, tasks, nUploads,
                   detectedFrom, nEdits>>
    /\ UNCHANGED editorVars

Views == {"landing", "event-list", "admin-list", "admin-dashboard", "vote", "results"}

\* The views the buttons of the current page lead to: the header
\* (App.tsx:18-55), renderLanding (286-291), renderEventList (357),
\* renderAdminDashboard (387), renderVote (526), renderResults (660-661).
NavTargets ==
    {"landing"}
    \cup (IF HasCurrentEvent THEN {"vote", "admin-dashboard"} ELSE {})
    \cup (IF view = "landing" THEN {"event-list", "admin-list"} ELSE {})
    \cup (IF view = "admin-dashboard" /\ HasCurrentEvent THEN {"admin-list"} ELSE {})
    \cup (IF view = "results" /\ HasCurrentEvent THEN {"event-list"} ELSE {})

\* navigateTo, App.tsx:158-161.
navigateTo(newView) ==
    /\ ~ReviewOpen
    /\ newView \in NavTargets
    /\ view' = newView
    /\ last' = Event("navigate", 0, 0, FALSE)
    /\ UNCHANGED <<events, currentEventId, newCatName, newEventName,
                   currentVoteCategory, storage, clock>>
    /\ StoreFrame

\* The input of App.tsx:302-309.
setNewEventName(name) ==
    /\ view = "admin-list"
    /\ name # newEventName
    /\ newEventName' = name
    /\ last' = Event("event-name", 0, 0, FALSE)
    /\ UNCHANGED <<events, currentEventId, view, newCatName, currentVoteCategory,
                   storage, clock>>
    /\ StoreFrame

\* handleCreateEvent, App.tsx:172-183: the Create button and the Enter key of
\* the input, with the persistence effect.
handleCreateEvent ==
    /\ view = "admin-list"
    /\ clock < MaxClock
    /\ Len(events) < MaxEvents
    /\ IF Trim(newEventName) = <<>>
       THEN /\ last' = Event("create-event", 0, 0, FALSE)
            /\ UNCHANGED storeVars
       ELSE /\ events' = Append(events, NewEvent(EventId(clock + 1), newEventName))
            /\ currentEventId' = EventId(clock + 1)
            /\ newEventName' = <<>>
            /\ view' = "admin-dashboard"
            /\ clock' = clock + 1
            /\ storage' = PersistEffect(events', storage)
            /\ last' = [Event("create-event", 0, 0, FALSE) EXCEPT !.called = TRUE]
            /\ UNCHANGED <<newCatName, currentVoteCategory>>
    /\ StoreFrame

\* handleDeleteEvent, App.tsx:185-191; confirmed is the answer to confirm().
handleDeleteEvent(id, confirmed) ==
    /\ view = "admin-list"
    /\ FindEvent(events, id) # 0
    /\ IF confirmed
       THEN /\ events' = SelectSeq(events, LAMBDA ev : ev.id # id)
            /\ currentEventId' = IF currentEventId = id THEN "null" ELSE currentEventId
            /\ storage' = PersistEffect(events', storage)
            /\ last' = [Event("delete-event", 0, 0, FALSE) EXCEPT !.called = TRUE]
       ELSE /\ last' = Event("delete-event", 0, 0, FALSE)
            /\ UNCHANGED <<events, currentEventId, storage>>
    /\ UNCHANGED <<view, newCatName, newEventName, currentVoteCategory, clock>>
    /\ StoreFrame

\* The click on an event of the list, App.tsx:324-328.
selectEvent(id) ==
    /\ view \in {"event-list", "admin-list"}
    /\ FindEvent(events, id) # 0
    /\ currentEventId' = id
    /\ currentVoteCategory' = 0
    /\ view' = IF view = "admin-list" THEN "admin-dashboard" ELSE "vote"
    /\ last' = Event("select-event", 0, 0, FALSE)
    /\ UNCHANGED <<events, newCatName, newEventName, storage, clock>>
    /\ StoreFrame

\* The dashboard of renderAdminDashboard, App.tsx:383-516, is on the page.
DashboardShown == view = "admin-dashboard" /\ HasCurrentEvent /\ ~ReviewOpen

\* A review of the dashboard was confirmed with these crops and category:
\* handleExtractCookies as the review calls it (CropReview.tsx:321).
reviewConfirmed(croppedImages, defaultCategoryId) ==
    /\ view = "admin-dashboard"
    /\ HasCurrentEvent
    /\ clock < MaxClock
    /\ Len(CurrentEvent.cookies) + Len(croppedImages) <= MaxCookies
    /\ handleExtractCookies(croppedImages, defaultCategoryId)
    /\ last' = [Event("extract", 0, 0, FALSE) EXCEPT
                    !.called = TRUE, !.crops = croppedImages, !.cat = defaultCategoryId]
    /\ categories' = CategoriesOf(events', currentEventId')
    /\ UNCHANGED <<loading, error, tasks, nUploads, nEdits>>

\* The delete button of a cookie, App.tsx:477.
deleteCookie(cookieId) ==
    /\ DashboardShown
    /\ \E k \in 1..Len(CurrentEvent.cookies) : CurrentEvent.cookies[k].id = cookieId
    /\ events' = updateCurrentEvent(LAMBDA prev :
           [prev EXCEPT !.cookies = SelectSeq(prev.cookies, LAMBDA c : c.id # cookieId)])
    /\ storage' = PersistEffect(events', storage)
    /\ last' = Event("delete-cookie", 0, 0, FALSE)
    /\ UNCHANGED <<currentEventId, view, newCatName, newEventName,
                   currentVoteCategory, clock>>
    /\ StoreFrame

\* The category <select> of a cookie, App.tsx:495-504; value is '' or the id
\* of one of the event's categories.
setCookieCategory(cookieId, value) ==
    /\ DashboardShown
    /\ \E k \in 1..Len(CurrentEvent.cookies) : CurrentEvent.cookies[k].id = cookieId
    /\ value \in {""} \cup {CurrentEvent.categories[k].id :
                                k \in 1..Len(CurrentEvent.categories)}
    /\ events' = updateCurrentEvent(LAMBDA prev :
           [prev EXCEPT !.cookies = [k \in 1..Len(prev.cookies) |->
               IF prev.cookies[k].id = cookieId
               THEN [prev.cookies[k] EXCEPT !.categoryId = value]
               ELSE prev.cookies[k]]])
    /\ storage' = PersistEffect(events', storage)
    /\ last' = Event("set-category", 0, 0, FALSE)
    /\ UNCHANGED <<currentEventId, view, newCatName, newEventName,
                   currentVoteCategory, clock>>
    /\ StoreFrame

\* The input of App.tsx:429-435.
setNewCatName(name) ==
    /\ DashboardShown
    /\ name # newCatName
    /\ newCatName' = name
    /\ last' = Event("category-name", 0, 0, FALSE)
    /\ UNCHANGED <<events, currentEventId, view, newEventName, currentVoteCategory,
                   storage, clock>>
    /\ StoreFrame

\* handleAddCategory, App.tsx:255-262; the Add button is disabled while the
\* name is empty (App.tsx:436).
handleAddCategory ==
    /\ DashboardShown
    /\ newCatName # <<>>
    /\ clock < MaxClock
    /\ events' = updateCurrentEvent(LAMBDA prev :
           [prev EXCEPT !.categories =
                Append(prev.categories, [id |-> CatId(clock + 1), name |-> newCatName])])
    /\ newCatName' = <<>>
    /\ clock' = clock + 1
    /\ storage' = PersistEffect(events', storage)
    /\ last' = Event("add-category", 0, 0, FALSE)
    /\ UNCHANGED <<currentEventId, view, newEventName, currentVoteCategory>>
    /\ StoreFrame

\* The delete button of a category, App.tsx:445.
deleteCategory(catId) ==
    /\ DashboardShown
    /\ \E k \in 1..Len(CurrentEvent.categories) : CurrentEvent.categories[k].id = catId
    /\ events' = updateCurrentEvent(LAMBDA prev :
           [prev EXCEPT !.categories = SelectSeq(prev.categories, LAMBDA c : c.id # catId)])
    /\ storage' = PersistEffect(events', storage)
    /\ last' = Event("delete-category", 0, 0, FALSE)
    /\ UNCHANGED <<currentEventId, view, newCatName, newEventName,
                   currentVoteCategory, clock>>
    /\ StoreFrame

\* renderVote, App.tsx:519-534: the page shows a category of the event.
VoteShown == view = "vote" /\ HasCurrentEvent /\ Len(CurrentEvent.categories) > 0
safeIndex == MathMin(currentVoteCategory, Len(CurrentEvent.categories) - 1)
currentCat == CurrentEvent.categories[safeIndex + 1]
eligibleCookies == SelectSeq(CurrentEvent.cookies, LAMBDA c : c.categoryId = currentCat.id)

\* handleVote that records the vote for every cookie of the event.
handleVoteCountsAll(cookieId) ==
    /\ VoteShown
    /\ \E k \in 1..Len(eligibleCookies) : eligibleCookies[k].id = cookieId
    /\ Len(CurrentEvent.votes) < MaxVotes
    /\ last' = [Event("vote", 0, 0, FALSE) EXCEPT !.cat = currentCat.id, !.name = <<cookieId>>]
    /\ IF currentVoteCategory >= Len(CurrentEvent.categories)
       THEN UNCHANGED <<events, storage, currentVoteCategory, view>>
       ELSE /\ events' = updateCurrentEvent(LAMBDA prev :
                   [prev EXCEPT
                       !.cookies = [k \in 1..Len(prev.cookies) |->
                           [prev.cookies[k] EXCEPT !.votes = @ + 1]],
                       !.votes = Append(prev.votes,
                           [categoryId |-> prev.categories[currentVoteCategory + 1].id,
                            cookieId |-> cookieId])])
            /\ storage' = PersistEffect(events', storage)
            /\ IF currentVoteCategory < Len(CurrentEvent.categories) - 1
               THEN currentVoteCategory' = currentVoteCategory + 1 /\ view' = view
               ELSE currentVoteCategory' = currentVoteCategory /\ view' = "results"
    /\ UNCHANGED <<currentEventId, newCatName, newEventName, clock>>
    /\ StoreFrame

\* handleVote, App.tsx:234-253, called by the click on an eligible cookie
\* (App.tsx:561-563).
handleVote(cookieId) ==
    /\ VoteShown
    /\ \E k \in 1..Len(eligibleCookies) : eligibleCookies[k].id = cookieId
    /\ Len(CurrentEvent.votes) < MaxVotes
    /\ last' = [Event("vote", 0, 0, FALSE) EXCEPT !.cat = currentCat.id, !.name = <<cookieId>>]
    /\ IF currentVoteCategory >= Len(CurrentEvent.categories)
       THEN UNCHANGED <<events, storage, currentVoteCategory, view>>
       ELSE /\ events' = updateCurrentEvent(LAMBDA prev :
                   [prev EXCEPT
                       !.cookies = [k \in 1..Len(prev.cookies) |->
                           IF prev.cookies[k].id = cookieId
                           THEN [prev.cookies[k] EXCEPT !.votes = @ + 1]
                           ELSE prev.cookies[k]],
                       !.votes = Append(prev.votes,
                           [categoryId |-> prev.categories[currentVoteCategory + 1].id,
                            cookieId |-> cookieId])])
            /\ storage' = PersistEffect(events', storage)
            /\ IF currentVoteCategory < Len(CurrentEvent.categories) - 1
               THEN currentVoteCategory' = currentVoteCategory + 1 /\ view' = view
               ELSE currentVoteCategory' = currentVoteCategory /\ view' = "results"
    /\ UNCHANGED <<currentEventId, newCatName, newEventName, clock>>
    /\ StoreFrame

\* handleSkip, App.tsx:536-542, the button shown when no cookie is eligible.
handleSkip ==
    /\ VoteShown
    /\ Len(eligibleCookies) = 0
    /\ IF currentVoteCategory < Len(CurrentEvent.categories) - 1
       THEN currentVoteCategory' = currentVoteCategory + 1 /\ view' = view
       ELSE currentVoteCategory' = currentVoteCategory /\ view' = "results"
    /\ last' = Event("skip", 0, 0, FALSE)
    /\ UNCHANGED <<events, currentEventId, newCatName, newEventName, storage, clock>>
    /\ StoreFrame

\* The page is loaded again: every useState starts over and the effect of
\* App.tsx:125-139 reads the stored events; the persistence effect follows.
reload ==
    /\ ~ReviewOpen
    /\ events' = LoadEffect(storage)
    /\ currentEventId' = "null"
    /\ view' = "landing"
    /\ newCatName' = <<>>
    /\ newEventName' = <<>>
    /\ currentVoteCategory' = 0
    /\ storage' = PersistEffect(events', storage)
    /\ last' = Event("reload", 0, 0, FALSE)
    /\ UNCHANGED clock
    /\ StoreFrame

----------------------------------------------------------------------------
(* Inputs *)

\* Detector results that keep the guarantee xmin<xmax, ymin<ymax, all in [0,1000].
BoxA == Box(100, 100, 300, 300)
BoxB == Box(200, 200, 500, 500)
BoxNarrow == Box(955, 400, 1000, 600)
ValidDetections == {<<BoxA>>, <<BoxA, BoxB>>, <<BoxNarrow>>}

\* Detector results that break it: an inverted box, a box out of range.
BoxInverted == Box(600, 300, 400, 500)
BoxOutOfRange == Box(900, -50, 1200, 300)

\* Texts typed into the new-category input.
NameInputs == {<<" ", " ">>, <<" ", "N", " ", "u", " ">>}

\* Pointer positions, as normalized points <<nx, ny>>; the handlers get the
\* canvas pixel under them.
DownPoints ==
    {<<150, 150>>, <<250, 250>>, <<300, 300>>, <<500, 500>>, <<600, 600>>,
     <<990, 500>>, <<1000, 600>>, <<0, 0>>, <<320, 320>>, <<340, 340>>}
\* A touch-move may leave the canvas.
MovePoints == DownPoints \cup {<<100, 250>>, <<1100, 500>>}

PointerX(p) == normToPixel(p[1], canvas.width)
PointerY(p) == normToPixel(p[2], canvas.height)

----------------------------------------------------------------------------
(* The review editor, mounted on a detector result that keeps the guarantee *)

\* The admin dashboard of an event that was just created: handleCreateEvent
\* has run once and its event is persisted (App.tsx:172-183, 141-145).
StoreDashboard ==
    /\ events = <<NewEvent(EventId(1), <<"A">>)>>
    /\ currentEventId = EventId(1)
    /\ view = "admin-dashboard"
    /\ newCatName = <<>>
    /\ newEventName = <<>>
    /\ currentVoteCategory = 0
    /\ storage = <<JSONStringify(events)>>
    /\ clock = 1

\* The event store and the navigation as useState leaves them on mount, with
\* nothing persisted (App.tsx:93-117).
StoreIdle ==
    /\ events = <<>>
    /\ currentEventId = "null"
    /\ view = "landing"
    /\ newCatName = <<>>
    /\ newEventName = <<>>
    /\ currentVoteCategory = 0
    /\ storage = <<>>
    /\ clock = 0

NoEvent == Event("init", 0, 0, FALSE)

Init ==
    /\ trayImage \in Images
    /\ detectedBoxes \in ValidDetections
    /\ loading = FALSE
    /\ error = "null"
    /\ tasks = {}
    /\ nUploads = 0
    /\ cookies = <<>>
    /\ categories = InitialCategories
    /\ detectedFrom = trayImage
    /\ boxes = detectedBoxes
    /\ selectedIndex = NULL
    /\ selectedCategoryId = ""
    /\ dragMode = "none"
    /\ dragHandle = NoHandle
    /\ isDragging = FALSE
    /\ dragStart = [x |-> 0, y |-> 0]
    /\ imgRef = NoImage
    /\ imgLoads = {trayImage}
    /\ canvas = DefaultCanvas
    /\ newCategoryName = <<>>
    /\ prevCategoriesLen = Len(InitialCategories)
    /\ moveSession = IdleSession
    /\ StoreDashboard
    /\ last = NoEvent
    /\ nEdits = 0

PointerDown == \E p \in DownPoints : handleMouseDown(PointerX(p), PointerY(p))
PointerMove == \E p \in MovePoints : handleMouseMove(PointerX(p), PointerY(p))
PointerUp == handleMouseUp
AddBox == handleAddBox
DeleteBox == handleDeleteBox
SelectCategory ==
    \E id \in {""} \cup {categories[k].id : k \in 1..Len(categories)} : setSelectedCategoryId(id)
TypeCategoryName == \E name \in NameInputs : setNewCategoryName(name)
CreateCategory == handleCreateCategory
ImageLoaded == \E img \in Images : imgOnload(img)
Confirm == handleProcess
Cancel == onCancel

Next ==
    \/ PointerDown
    \/ PointerMove
    \/ PointerUp
    \/ AddBox
    \/ DeleteBox
    \/ SelectCategory
    \/ TypeCategoryName
    \/ CreateCategory
    \/ ImageLoaded
    \/ Confirm
    \/ Cancel

Spec == Init /\ [][Next]_vars

----------------------------------------------------------------------------
(* The application: tray uploads feeding the review editor.  The detector  *)
(* is an external service and may return anything.                         *)

AppDetections == {<<>>, <<BoxA>>, <<BoxA, BoxB>>, <<BoxInverted, BoxOutOfRange>>}

AppDownPoints == {<<250, 250>>, <<300, 300>>, <<500, 500>>, <<0, 0>>}
AppMovePoints == {<<250, 250>>, <<100, 250>>, <<1100, 500>>}

InitApp ==
    /\ trayImage = NoImage
    /\ detectedBoxes = <<>>
    /\ loading = FALSE
    /\ error = "null"
    /\ tasks = {}
    /\ nUploads = 0
    /\ cookies = <<>>
    /\ categories = InitialCategories
    /\ detectedFrom = NoImage
    /\ boxes = <<>>
    /\ selectedIndex = NULL
    /\ selectedCategoryId = ""
    /\ dragMode = "none"
    /\ dragHandle = NoHandle
    /\ isDragging = FALSE
    /\ dragStart = [x |-> 0, y |-> 0]
    /\ imgRef = NoImage
    /\ imgLoads = {}
    /\ canvas = DefaultCanvas
    /\ newCategoryName = <<>>
    /\ prevCategoriesLen = 0
    /\ moveSession = IdleSession
    /\ StoreDashboard
    /\ last = NoEvent
    /\ nEdits = 0

UploadTray == \E file \in Images : handleUploadTray(file)
FileRead == \E t \in tasks : readerOnload(t)
DetectionReturns == \E t \in tasks : \E found \in AppDetections : detectReturn(t, found)
AppPointerDown == \E p \in AppDownPoints : handleMouseDown(PointerX(p), PointerY(p))
AppPointerMove == \E p \in AppMovePoints : handleMouseMove(PointerX(p), PointerY(p))

NextApp ==
    \/ UploadTray
    \/ FileRead
    \/ DetectionReturns
    \/ AppPointerDown
    \/ AppPointerMove
    \/ PointerUp
    \/ AddBox
    \/ DeleteBox
    \/ SelectCategory
    \/ TypeCategoryName
    \/ CreateCategory
    \/ ImageLoaded
    \/ Confirm
    \/ Cancel

SpecApp == InitApp /\ [][NextApp]_vars

----------------------------------------------------------------------------
(* The coordinate conversions: round trips through any pixel dimension and  *)
(* the dimensions the editor applies them with.                             *)

ConvImages == Images \cup {"tray-small"}
NormValues == {0, 1, 333, 500, 999, 1000}
PixelDims == {1, 7, 150, 300, 1080, 2000}

InitConv ==
    /\ trayImage \in ConvImages
    /\ detectedBoxes = <<BoxA>>
    /\ loading = FALSE
    /\ error = "null"
    /\ tasks = {}
    /\ nUploads = 0
    /\ cookies = <<>>
    /\ categories = InitialCategories
    /\ detectedFrom = trayImage
    /\ boxes = detectedBoxes
    /\ selectedIndex = NULL
    /\ selectedCategoryId = ""
    /\ dragMode = "none"
    /\ dragHandle = NoHandle
    /\ isDragging = FALSE
    /\ dragStart = [x |-> 0, y |-> 0]
    /\ imgRef = NoImage
    /\ imgLoads = {trayImage}
    /\ canvas = DefaultCanvas
    /\ newCategoryName = <<>>
    /\ prevCategoriesLen = Len(InitialCategories)
    /\ moveSession = IdleSession
    /\ StoreDashboard
    /\ last = NoEvent
    /\ nEdits = 0

\* pixelToNorm(normToPixel(v, d), d)
RoundTrip ==
    \E v \in NormValues : \E d \in PixelDims :
        /\ last' = [Event("roundtrip", v, d, FALSE) EXCEPT
                       !.crops = <<pixelToNormQ(normToPixelQ(v, d), d)>>]
        /\ UNCHANGED appVars
        /\ UNCHANGED editorVars
        /\ UNCHANGED nEdits
        /\ UNCHANGED storeVars

ConvImageLoaded == \E img \in ConvImages : imgOnload(img)

NextConv ==
    \/ RoundTrip
    \/ ConvImageLoaded
    \/ AppPointerDown
    \/ AppPointerMove
    \/ PointerUp

SpecConv == InitConv /\ [][NextConv]_vars

----------------------------------------------------------------------------
(* The exporter on every well-formed box over a grid of coordinates: the    *)
(* review is mounted on one detected box, the image loads, Confirm exports. *)

CropCoords == {0, 1, 15, 500, 985, 999, 1000}
CropBoxes ==
    {b \in {Box(x1, y1, x2, y2) : x1 \in CropCoords, y1 \in CropCoords,
                                  x2 \in CropCoords, y2 \in CropCoords} :
        b.xmin < b.xmax /\ b.ymin < b.ymax}

InitCrop ==
    /\ trayImage \in ConvImages
    /\ detectedBoxes \in {<<b>> : b \in CropBoxes}
    /\ loading = FALSE
    /\ error = "null"
    /\ tasks = {}
    /\ nUploads = 0
    /\ cookies = <<>>
    /\ categories = InitialCategories
    /\ detectedFrom = trayImage
    /\ boxes = detectedBoxes
    /\ selectedIndex = NULL
    /\ selectedCategoryId = ""
    /\ dragMode = "none"
    /\ dragHandle = NoHandle
    /\ isDragging = FALSE
    /\ dragStart = [x |-> 0, y |-> 0]
    /\ imgRef = NoImage
    /\ imgLoads = {trayImage}
    /\ canvas = DefaultCanvas
    /\ newCategoryName = <<>>
    /\ prevCategoriesLen = Len(InitialCategories)
    /\ moveSession = IdleSession
    /\ StoreDashboard
    /\ last = NoEvent
    /\ nEdits = 0

NextCrop ==
    \/ ConvImageLoaded
    \/ Confirm
    \/ Cancel

SpecCrop == InitCrop /\ [][NextCrop]_vars

----------------------------------------------------------------------------
(* The event store, the navigation and the voting, from a first visit with  *)
(* nothing stored.  Cookies come from confirmed reviews.                    *)

EventNameInputs == {<<"A">>}
CatNameInputs == {<<"C">>}
ReviewResults ==
    {<<CropRegion(BoxA, "tray-square")>>,
     <<CropRegion(BoxA, "tray-square"), CropRegion(BoxB, "tray-square")>>}

InitEvents ==
    /\ trayImage = NoImage
    /\ detectedBoxes = <<>>
    /\ loading = FALSE
    /\ error = "null"
    /\ tasks = {}
    /\ nUploads = 0
    /\ cookies = <<>>
    /\ categories = <<>>
    /\ detectedFrom = NoImage
    /\ boxes = <<>>
    /\ selectedIndex = NULL
    /\ selectedCategoryId = ""
    /\ dragMode = "none"
    /\ dragHandle = NoHandle
    /\ isDragging = FALSE
    /\ dragStart = [x |-> 0, y |-> 0]
    /\ imgRef = NoImage
    /\ imgLoads = {}
    /\ canvas = DefaultCanvas
    /\ newCategoryName = <<>>
    /\ prevCategoriesLen = 0
    /\ moveSession = IdleSession
    /\ StoreIdle
    /\ last = NoEvent
    /\ nEdits = 0

EventIdsShown == {events[i].id : i \in 1..Len(events)}
CookieIdsShown == {cookies[k].id : k \in 1..Len(cookies)}
CategoryIdsShown == {categories[k].id : k \in 1..Len(categories)}

Navigate == \E newView \in Views : navigateTo(newView)
TypeEventName == \E name \in EventNameInputs : setNewEventName(name)
CreateEvent == handleCreateEvent
DeleteEvent == \E id \in EventIdsShown : \E confirmed \in BOOLEAN : handleDeleteEvent(id, confirmed)
SelectEvent == \E id \in EventIdsShown : selectEvent(id)
ReviewConfirmed ==
    \E croppedImages \in ReviewResults : \E cat \in {"null"} \cup CategoryIdsShown :
        reviewConfirmed(croppedImages, cat)
DeleteCookie == \E id \in CookieIdsShown : deleteCookie(id)
SetCookieCategory ==
    \E id \in CookieIdsShown : \E value \in {""} \cup CategoryIdsShown :
        setCookieCategory(id, value)
TypeCatName == \E name \in CatNameInputs : setNewCatName(name)
AddCategory == handleAddCategory
DeleteCategory == \E id \in CategoryIdsShown : deleteCategory(id)
Vote == \E id \in CookieIdsShown : handleVote(id)
Skip == handleSkip
Reload == reload

NextEvents ==
    \/ Navigate
    \/ TypeEventName
    \/ CreateEvent
    \/ DeleteEvent
    \/ SelectEvent
    \/ ReviewConfirmed
    \/ DeleteCookie
    \/ SetCookieCategory
    \/ TypeCatName
    \/ AddCategory
    \/ DeleteCategory
    \/ Vote
    \/ Skip
    \/ Reload

SpecEvents == InitEvents /\ [][NextEvents]_vars

----------------------------------------------------------------------------
(* Properties.  The definitions of this section state the claims; they are  *)
(* not part of the model of the program.                                   *)

InRange(b) ==
    /\ 0 <= b.xmin /\ b.xmin <= NormMax
    /\ 0 <= b.ymin /\ b.ymin <= NormMax
    /\ 0 <= b.xmax /\ b.xmax <= NormMax
    /\ 0 <= b.ymax /\ b.ymax <= NormMax

WellFormed(b) == IsBox(b) /\ b.xmin < b.xmax /\ b.ymin < b.ymax /\ InRange(b)

Width(b) == b.xmax - b.xmin
Height(b) == b.ymax - b.ymin

\* The selected box.
SelBox == BoxAt(boxes, selectedIndex)

\* This step is a pointer-move that handleMouseMove does not ignore, on a box.
DragStep ==
    /\ last'.op = "move"
    /\ isDragging
    /\ selectedIndex # NULL
    /\ Defined(boxes, selectedIndex)
    /\ IsBox(SelBox)
MoveStep == DragStep /\ dragMode = "move"
ResizeStep == DragStep /\ dragMode = "resize" /\ dragHandle # NoHandle

\* The normalized delta of a move step (the step stores the pointer in dragStart).
StepDx == pixelToNorm(dragStart'.x - dragStart.x, canvas.width)
StepDy == pixelToNorm(dragStart'.y - dragStart.y, canvas.height)

(* C1: in every state reached by editing a detector result that keeps the  *)
(* guarantee, every box has xmin < xmax, ymin < ymax and all four          *)
(* coordinates within [0, 1000].                                           *)
C1_EveryBoxWellFormed ==
    \A k \in 1..Len(boxes) : WellFormed(boxes[k])

(* C2: a pointer-move in move mode leaves the width and the height of the  *)
(* selected box unchanged, for every box within [0, 1000] and every        *)
(* pointer delta, clamped or not.                                          *)
C2_MovePreservesSize ==
    [][(MoveStep /\ InRange(SelBox))
        => /\ Width(SelBox') = Width(SelBox)
           /\ Height(SelBox') = Height(SelBox)]_vars

\* A pointer-down inside the box 100..300 and a move to the canvas origin: the
\* move was clamped on both axes and the box is still 200 by 200.
C2_ClampedMoveDone ==
    /\ last.op = "move"
    /\ dragMode = "move"
    /\ nEdits = 2
    /\ detectedBoxes = <<BoxA>>
    /\ dragStart = [x |-> 0, y |-> 0]
    /\ boxes = <<Box(0, 0, 200, 200)>>

(* C3: when a move would carry a side of the selected box past 0 or 1000,  *)
(* that side ends exactly on the boundary and the opposite side at the     *)
(* boundary plus or minus the box's original width or height.              *)
C3_MoveClampsToBoundary ==
    [][MoveStep
        => /\ (SelBox.xmin + StepDx < 0)
                => (SelBox'.xmin = 0 /\ SelBox'.xmax = Width(SelBox))
           /\ (SelBox.xmax + StepDx > NormMax)
                => (SelBox'.xmax = NormMax /\ SelBox'.xmin = NormMax - Width(SelBox))
           /\ (SelBox.ymin + StepDy < 0)
                => (SelBox'.ymin = 0 /\ SelBox'.ymax = Height(SelBox))
           /\ (SelBox.ymax + StepDy > NormMax)
                => (SelBox'.ymax = NormMax /\ SelBox'.ymin = NormMax - Height(SelBox))]_vars

\* The 200-unit-wide box 100..300, moved by -150 (left edge to -50), is at 0..200.
C3_MovedPastLeftEdge ==
    /\ last.op = "move"
    /\ dragMode = "move"
    /\ nEdits = 2
    /\ detectedBoxes = <<BoxA>>
    /\ dragStart = [x |-> PointerX(<<100, 250>>), y |-> PointerY(<<100, 250>>)]
    /\ boxes = <<Box(0, 100, 200, 300)>>

(* C4: after every pointer-move in resize mode with handle h, each edge    *)
(* moved by h is at least 50 units from its opposite edge, wherever the    *)
(* pointer is.                                                             *)
C4_ResizeKeepsMinimumSize ==
    [][ResizeStep
        => /\ (Includes(dragHandle, "w") \/ Includes(dragHandle, "e"))
                => Width(SelBox') >= MinSize
           /\ (Includes(dragHandle, "n") \/ Includes(dragHandle, "s"))
                => Height(SelBox') >= MinSize]_vars

\* The se handle of the box 400..600 was dragged to (0, 0): the box is 400..450.
C4_DraggedSeToOrigin ==
    /\ last.op = "move"
    /\ dragMode = "resize"
    /\ dragHandle = "se"
    /\ selectedIndex # NULL
    /\ SelBox = Box(400, 400, 450, 450)

\* The canvas pixel of the corner of box b that handle h sits on.
CornerX(h, b, cv) == normToPixel(IF Includes(h, "w") THEN b.xmin ELSE b.xmax, cv.width)
CornerY(h, b, cv) == normToPixel(IF Includes(h, "n") THEN b.ymin ELSE b.ymax, cv.height)

\* (x, y) is within the tolerance of handle h of box b on both axes.
InTolerance(h, x, y, b, cv) ==
    /\ MathAbs(x - CornerX(h, b, cv)) * 1000 < cv.width * HandleTol
    /\ MathAbs(y - CornerY(h, b, cv)) * 1000 < cv.width * HandleTol

\* The handles of the selected box whose tolerance region holds (x, y).
HandlesAt(x, y) ==
    {h \in {"nw", "ne", "sw", "se"} : InTolerance(h, x, y, SelBox, canvas)}

\* (x, y) is inside the pixel rectangle of box b, bounds included.
Contains(b, x, y, cv) ==
    /\ IsBox(b)
    /\ x * 1000 >= b.xmin * cv.width /\ x * 1000 <= b.xmax * cv.width
    /\ y * 1000 >= b.ymin * cv.height /\ y * 1000 <= b.ymax * cv.height

\* The indices of the boxes that contain (x, y).
BoxesAt(x, y) == {i \in 0..(Len(boxes) - 1) : Contains(BoxAt(boxes, i), x, y, canvas)}

(* C5: when a box is selected and a pointer-down lands within the          *)
(* tolerance region of one of its corner handles, the editor enters resize *)
(* mode on a handle whose region holds the point and the selection is      *)
(* unchanged, even if the point lies inside the body of another box.       *)
C5_HandleBeforeBody ==
    [][(/\ last'.op = "down"
        /\ selectedIndex # NULL
        /\ Defined(boxes, selectedIndex)
        /\ IsBox(SelBox)
        /\ HandlesAt(last'.x, last'.y) # {})
        => /\ dragMode' = "resize"
           /\ dragHandle' \in HandlesAt(last'.x, last'.y)
           /\ isDragging'
           /\ selectedIndex' = selectedIndex
           /\ boxes' = boxes]_vars

\* A pointer-down took a handle of the selected box at a point that is inside
\* the body of a box later in z-order.
C5_HandleTakenOverLaterBox ==
    /\ last.op = "down"
    /\ dragMode = "resize"
    /\ dragHandle # NoHandle
    /\ selectedIndex # NULL
    /\ \E j \in BoxesAt(last.x, last.y) : j > selectedIndex

(* C6: a pointer-down that hits no handle of the selected box and lies     *)
(* inside the pixel rectangle (bounds included) of at least one box        *)
(* selects the box with the greatest index among those containing the      *)
(* point and enters move mode for it.                                      *)
C6_TopmostBoxSelected ==
    [][(/\ last'.op = "down"
        /\ \/ selectedIndex = NULL
           \/ (Defined(boxes, selectedIndex) /\ HandlesAt(last'.x, last'.y) = {})
        /\ BoxesAt(last'.x, last'.y) # {})
        => /\ selectedIndex' \in BoxesAt(last'.x, last'.y)
           /\ \A i \in BoxesAt(last'.x, last'.y) : i <= selectedIndex'
           /\ dragMode' = "move"
           /\ isDragging'
           /\ dragStart' = [x |-> last'.x, y |-> last'.y]]_vars

\* The first pointer-down, in the overlap of boxes A and B, selected B.
C6_OverlapSelectsLater ==
    /\ last.op = "down"
    /\ nEdits = 1
    /\ boxes = <<BoxA, BoxB>>
    /\ BoxesAt(last.x, last.y) = {0, 1}
    /\ selectedIndex = 1
    /\ dragMode = "move"

\* The region the exporter is to copy for box b of image img: the pixel
\* rectangle of b, widened by the padding on all four sides, cut to the image.
PaddedLeft(b, img) ==
    MathMax(0, (b.xmin * naturalWidth(img)) \div 1000
               - MathMax(MinPadding * PxUnit, naturalWidth(img) \div 100))
PaddedRight(b, img) ==
    MathMin(naturalWidth(img), (b.xmax * naturalWidth(img)) \div 1000
               + MathMax(MinPadding * PxUnit, naturalWidth(img) \div 100))
PaddedTop(b, img) ==
    MathMax(0, (b.ymin * naturalHeight(img)) \div 1000
               - MathMax(MinPadding * PxUnit, naturalWidth(img) \div 100))
PaddedBottom(b, img) ==
    MathMin(naturalHeight(img), (b.ymax * naturalHeight(img)) \div 1000
               + MathMax(MinPadding * PxUnit, naturalWidth(img) \div 100))

(* C7: for every box, the region exported for it is the box's pixel        *)
(* rectangle expanded by padding p = max(20, imageWidth/100) on all four   *)
(* sides and then clamped to the image: x from max(0, x-p) to              *)
(* min(imageWidth, x+w+p), y from max(0, y-p) to min(imageHeight, y+h+p).  *)
C7_CropIsClampedPaddedBox ==
    [][(last'.op = "confirm" /\ last'.called)
        => \A k \in 1..Len(boxes) :
              /\ last'.crops[k].sx = PaddedLeft(boxes[k], imgRef)
              /\ last'.crops[k].sx + last'.crops[k].sw = PaddedRight(boxes[k], imgRef)
              /\ last'.crops[k].sy = PaddedTop(boxes[k], imgRef)
              /\ last'.crops[k].sy + last'.crops[k].sh = PaddedBottom(boxes[k], imgRef)]_vars

(* C8: on Confirm with the image loaded, the host receives exactly one     *)
(* crop per box of the collection, in collection order (crop k is computed *)
(* from box k), together with the selected category id, or null when no    *)
(* category is selected.                                                   *)
C8_OneCropPerBoxInOrder ==
    [][(last'.op = "confirm" /\ imgRef # NoImage)
        => /\ last'.called
           /\ Len(last'.crops) = Len(boxes)
           /\ \A k \in 1..Len(boxes) : last'.crops[k] = CropRegion(boxes[k], imgRef)
           /\ last'.cat = (IF selectedCategoryId = "" THEN "null" ELSE selectedCategoryId)
           /\ Len(cookies') = Len(cookies) + Len(boxes)]_vars

\* The host got two different crops and a category id.
C8_TwoCropsDelivered ==
    /\ last.op = "confirm"
    /\ last.called
    /\ Len(last.crops) = 2
    /\ last.crops[1] # last.crops[2]
    /\ last.cat = "cat-2"

(* C9: once review has begun, the box collection changes only through the  *)
(* editor's own operations (pointer-move, add manual box, delete           *)
(* selected); a detection call completing while the review is open never   *)
(* replaces the collection.                                                *)
C9_OnlyEditorChangesBoxes ==
    [][(ReviewOpen /\ ReviewOpen' /\ boxes' # boxes)
        => last'.op \in {"move", "add", "delete"}]_vars

(* C10: when the detector's box set contains a box with inverted or        *)
(* out-of-range coordinates, the editor's collection holds that box        *)
(* clamped into [0, 1000] rather than its raw values.                      *)
C10_SeededBoxesClamped ==
    (ReviewOpen /\ last.op = "detect")
        => \A k \in 1..Len(boxes) : InRange(boxes[k])

(* C11: Add manual box appends exactly one box equal to {xmin:400,         *)
(* ymin:400, xmax:600, ymax:600} at the end of the collection, leaves      *)
(* every existing box at its index, and selects the new box, whose index   *)
(* is the previous length of the collection.                               *)
C11_AddAppendsAndSelects ==
    [][(last'.op = "add")
        => /\ Len(boxes') = Len(boxes) + 1
           /\ \A j \in 0..(Len(boxes) - 1) : BoxAt(boxes', j) = BoxAt(boxes, j)
           /\ BoxAt(boxes', Len(boxes)) = Box(400, 400, 600, 600)
           /\ selectedIndex' = Len(boxes)]_vars

\* The manual box was added to the boxes A and B: it is third and selected.
C11_ThirdBoxAdded ==
    /\ last.op = "add"
    /\ boxes = <<BoxA, BoxB, Box(400, 400, 600, 600)>>
    /\ selectedIndex = 2

(* C12: Delete selected with box k selected removes exactly the box at     *)
(* index k, keeps every other box in its relative order (the box formerly  *)
(* at index j > k is at j - 1) and clears the selection; with nothing      *)
(* selected it changes neither the collection nor the selection.           *)
C12_DeleteRemovesSelected ==
    [][(last'.op = "delete")
        => IF selectedIndex = NULL
           THEN boxes' = boxes /\ selectedIndex' = NULL
           ELSE /\ Defined(boxes, selectedIndex)
                /\ Len(boxes') = Len(boxes) - 1
                /\ \A j \in 0..(Len(boxes) - 1) :
                      /\ (j < selectedIndex) => BoxAt(boxes', j) = BoxAt(boxes, j)
                      /\ (j > selectedIndex) => BoxAt(boxes', j - 1) = BoxAt(boxes, j)
                /\ selectedIndex' = NULL]_vars

\* Box A (index 0) of A, B was selected and deleted: B is now at index 0.
C12_FirstOfTwoDeleted ==
    /\ last.op = "delete"
    /\ nEdits = 2
    /\ detectedBoxes = <<BoxA, BoxB>>
    /\ boxes = <<BoxB>>
    /\ selectedIndex = NULL

(* C13: in every reachable state the selection is none or one index i with *)
(* 0 <= i < number of boxes, after any sequence of pointer events, add,    *)
(* delete and updates of the box set.                                      *)
C13_SelectionIsNoneOrValidIndex ==
    selectedIndex = NULL \/ (0 <= selectedIndex /\ selectedIndex < Len(boxes))

(* C14: if the source image is not loaded when Confirm is invoked, the     *)
(* export fails explicitly: no crop sequence is handed to the host, no     *)
(* cookie is added, and the failure is surfaced (the handler throws or an  *)
(* error is reported).                                                     *)
C14_ConfirmWithoutImageFails ==
    [][(last'.op = "confirm" /\ imgRef = NoImage)
        => /\ ~last'.called
           /\ cookies' = cookies
           /\ (last'.threw \/ error' # error)]_vars

(* C15: pointer-up and the pointer leaving the canvas end any drag session *)
(* (drag mode none, no handle, not dragging) and leave the selection and   *)
(* every box unchanged.                                                    *)
C15_PointerUpEndsDrag ==
    [][(last'.op = "up")
        => /\ dragMode' = "none"
           /\ dragHandle' = NoHandle
           /\ ~isDragging'
           /\ selectedIndex' = selectedIndex
           /\ boxes' = boxes]_vars

\* A box was selected, dragged to another place and released.
C15_DragReleased ==
    /\ last.op = "up"
    /\ nEdits = 3
    /\ dragMode = "none"
    /\ ~isDragging
    /\ selectedIndex = 0
    /\ detectedBoxes = <<BoxA>>
    /\ boxes = <<Box(0, 0, 200, 200)>>

\* No drag session is active: none was started since the editor was mounted
\* or since the last pointer-up, or the last pointer-down hit nothing.
NoSession ==
    \/ ~isDragging
    \/ last.op = "up"
    \/ (last.op = "down" /\ ~last.threw /\ selectedIndex = NULL)

(* C16: a pointer-move received while no drag session is active (before    *)
(* any pointer-down, after a pointer-up or leave, after a pointer-down     *)
(* that hit nothing) changes no box, not the selection and not the drag    *)
(* state.                                                                  *)
C16_MoveOutsideSessionIgnored ==
    [][(last'.op = "move" /\ NoSession)
        => /\ boxes' = boxes
           /\ selectedIndex' = selectedIndex
           /\ UNCHANGED <<dragMode, dragHandle, isDragging, dragStart>>]_vars

\* A box was selected and released, and the pointer then moved: the box is
\* where the detector put it and still selected.
C16_MovedAfterRelease ==
    /\ last.op = "move"
    /\ nEdits = 3
    /\ ~isDragging
    /\ dragMode = "none"
    /\ selectedIndex = 1
    /\ boxes = <<BoxA, BoxB>>

(* C17: a pointer-down that hits no handle of the selected box and lies    *)
(* outside every box clears the selection, starts no drag session (the     *)
(* drag state is left as it was) and leaves the collection unchanged.      *)
C17_DownOutsideClearsSelection ==
    [][(/\ last'.op = "down"
        /\ \/ selectedIndex = NULL
           \/ (Defined(boxes, selectedIndex) /\ HandlesAt(last'.x, last'.y) = {})
        /\ BoxesAt(last'.x, last'.y) = {})
        => /\ selectedIndex' = NULL
           /\ boxes' = boxes
           /\ UNCHANGED <<dragMode, dragHandle, isDragging, dragStart>>]_vars

\* A box was selected and released, and a pointer-down outside every box
\* then cleared the selection.
C17_SelectionClearedByDownOutside ==
    /\ last.op = "down"
    /\ nEdits = 3
    /\ BoxesAt(last.x, last.y) = {}
    /\ selectedIndex = NULL
    /\ ~isDragging
    /\ dragStart # [x |-> 0, y |-> 0]
    /\ boxes = detectedBoxes

(* C18: whenever a pointer-down on another box's body or Add manual box    *)
(* changes the selection from one box to a different one, any drag session *)
(* that was in flight is cleared (a pointer-down on a body starts a fresh  *)
(* move session at the pointer), so that no later pointer-move continues   *)
(* the earlier drag against the newly selected box.                        *)
C18_NewSelectionClearsDrag ==
    [][(/\ last'.op \in {"down", "add"}
        /\ selectedIndex # NULL
        /\ selectedIndex' # NULL
        /\ selectedIndex' # selectedIndex)
        => \/ (~isDragging' /\ dragMode' = "none" /\ dragHandle' = NoHandle)
           \/ /\ last'.op = "down"
              /\ isDragging'
              /\ dragMode' = "move"
              /\ dragStart' = [x |-> last'.x, y |-> last'.y]]_vars

(* C19: every pointer event changes the geometry of at most one box, the   *)
(* selected one: pointer-down and pointer-up change no box, and a          *)
(* pointer-move leaves every non-selected box, the length and order of the *)
(* collection and the selection unchanged.                                 *)
C19_PointerEventsTouchOnlySelected ==
    [][(last'.op \in {"down", "up", "move"})
        => /\ (last'.op \in {"down", "up"}) => boxes' = boxes
           /\ (last'.op = "move")
                => /\ Len(boxes') = Len(boxes)
                   /\ selectedIndex' = selectedIndex
                   /\ \A j \in 0..(Len(boxes) - 1) :
                         (j # selectedIndex) => BoxAt(boxes', j) = BoxAt(boxes, j)]_vars

(* C20: cancelling the review produces no output: no crops are generated,  *)
(* no cookie is added to the event, and the review's tray image and box    *)
(* set are discarded.                                                      *)
C20_CancelProducesNoOutput ==
    [][(last'.op = "cancel")
        => /\ ~last'.called
           /\ last'.crops = <<>>
           /\ cookies' = cookies
           /\ trayImage' = NoImage
           /\ detectedBoxes' = <<>>
           /\ boxes' = <<>>
           /\ ~ReviewOpen']_vars

\* A review opened by an upload was edited and then cancelled.
C20_EditedReviewCancelled ==
    /\ last.op = "cancel"
    /\ nUploads >= 1
    /\ nEdits >= 1
    /\ trayImage = NoImage
    /\ detectedBoxes = <<>>
    /\ cookies = <<>>

\* The category id Confirm is to report for the selection id: the id, or null
\* when no category is selected.
ReportedCategory(id) == IF id = "" THEN "null" ELSE id

(* C21: on Confirm the box collection is consumed exactly once: the host   *)
(* appends exactly one cookie per crop, in crop order and carrying the     *)
(* reported category id (or null), after the cookies the event already     *)
(* has, and the review is closed (tray image and detected boxes cleared),  *)
(* so that Confirm cannot run again on the same collection.                *)
C21_ConfirmConsumesOnce ==
    /\ [][(last'.op = "confirm" /\ last'.called)
            => /\ Len(cookies') = Len(cookies) + Len(last'.crops)
               /\ SubSeq(cookies', 1, Len(cookies)) = cookies
               /\ \A k \in 1..Len(last'.crops) :
                     /\ cookies'[Len(cookies) + k].imageUrl = last'.crops[k]
                     /\ cookies'[Len(cookies) + k].categoryId = last'.cat
               /\ last'.cat = ReportedCategory(selectedCategoryId)
               /\ trayImage' = NoImage
               /\ detectedBoxes' = <<>>
               /\ ~ReviewOpen']_vars
    /\ []((last.op = "confirm" /\ last.called) => ~ENABLED handleProcess)

\* A second review was confirmed: its two cookies follow the cookie of the
\* first review.
C21_SecondReviewAppended ==
    /\ last.op = "confirm"
    /\ last.called
    /\ Len(last.crops) = 2
    /\ last.crops[1] # last.crops[2]
    /\ Len(cookies) = 3
    /\ ~ReviewOpen

(* C22: Confirm with an empty box collection and a loaded image is valid:  *)
(* the host gets an empty crop sequence and the chosen category id, or     *)
(* null, and no cookie is added.                                           *)
C22_EmptyCollectionConfirms ==
    [][(last'.op = "confirm" /\ imgRef # NoImage /\ boxes = <<>>)
        => /\ last'.called
           /\ last'.crops = <<>>
           /\ last'.cat = ReportedCategory(selectedCategoryId)
           /\ cookies' = cookies]_vars

\* The only box was deleted, a category chosen, and Confirm handed the host
\* no crop and that category.
C22_NoCropsDelivered ==
    /\ last.op = "confirm"
    /\ last.called
    /\ last.crops = <<>>
    /\ last.cat = "cat-1"
    /\ nEdits = 3
    /\ cookies = <<>>

\* This step is Confirm on the loaded 1000 x 1000 image with the single box
\* 100..300 and no category selected.
ExampleConfirm ==
    /\ last'.op = "confirm"
    /\ imgRef = "tray-square"
    /\ boxes = <<Box(100, 100, 300, 300)>>
    /\ selectedCategoryId = ""

(* C23: for a 1000 x 1000 pixel image with the single box {xmin:100,       *)
(* ymin:100, xmax:300, ymax:300} and no category selected, Confirm yields  *)
(* exactly one crop, with padding 20 and category id null, whose pixel     *)
(* region is x in [80, 320], y in [80, 320].                               *)
C23_ExampleCropIs80To320 ==
    [][ExampleConfirm
        => /\ last'.called
           /\ Len(last'.crops) = 1
           /\ last'.crops[1].sx = 80 * PxUnit
           /\ last'.crops[1].sx + last'.crops[1].sw = 320 * PxUnit
           /\ last'.crops[1].sy = 80 * PxUnit
           /\ last'.crops[1].sy + last'.crops[1].sh = 320 * PxUnit
           /\ last'.cat = "null"]_vars

\* The statement with the region x in [90, 310], y in [90, 310], each edge
\* within one pixel.
C23_ExampleCropIs90To310 ==
    [][ExampleConfirm
        => /\ last'.called
           /\ Len(last'.crops) = 1
           /\ MathAbs(last'.crops[1].sx - 90 * PxUnit) <= PxUnit
           /\ MathAbs(last'.crops[1].sx + last'.crops[1].sw - 310 * PxUnit) <= PxUnit
           /\ MathAbs(last'.crops[1].sy - 90 * PxUnit) <= PxUnit
           /\ MathAbs(last'.crops[1].sy + last'.crops[1].sh - 310 * PxUnit) <= PxUnit
           /\ last'.cat = "null"]_vars

\* The example was confirmed without any edit.
C23_ExampleConfirmed ==
    /\ last.op = "confirm"
    /\ last.called
    /\ nEdits = 0
    /\ Len(last.crops) = 1
    /\ last.crops[1].img = "tray-square"
    /\ last.crops[1].sw = 240 * PxUnit
    /\ last.cat = "null"

\* The name has a character that is not white space.
NonBlank(name) == \E k \in 1..Len(name) : name[k] # " "

\* t is name without its leading and trailing white space.
IsTrimmed(t, name) ==
    /\ t # <<>>
    /\ Head(t) # " "
    /\ t[Len(t)] # " "
    /\ \E i \in 0..Len(name) :
          /\ i + Len(t) <= Len(name)
          /\ SubSeq(name, i + 1, i + Len(t)) = t
          /\ \A k \in 1..Len(name) : (k <= i \/ k > i + Len(t)) => name[k] = " "

(* C24: when the category list supplied to the review grows, the selected  *)
(* category becomes the id of the last entry of the updated list, and a    *)
(* Confirm that follows reports that id; a category-creation request is    *)
(* issued only for a name that is not blank and carries the trimmed name.  *)
C24_NewCategoryIsSelected ==
    [][/\ (Len(categories') > Len(categories))
            => selectedCategoryId' = categories'[Len(categories')].id
       /\ (last.op = "create" /\ last.called /\ last'.op = "confirm" /\ imgRef # NoImage)
            => (last'.called /\ last'.cat = categories[Len(categories)].id)
       /\ (last'.op = "create" /\ last'.called)
            => /\ NonBlank(newCategoryName)
               /\ IsTrimmed(last'.name, newCategoryName)
               /\ categories'[Len(categories')].name = last'.name
       /\ (last'.op = "create" /\ ~last'.called)
            => categories' = categories]_vars

\* A category was created from a name typed with spaces around it, and the
\* Confirm that followed reported the new category's id.
C24_NewCategoryConfirmed ==
    /\ last.op = "confirm"
    /\ last.called
    /\ last.cat = "cat-t2"
    /\ Len(categories) = 4
    /\ categories[4] = [id |-> "cat-t2", name |-> <<"N", " ", "u">>]

\* The fraction r is the integer v.
RatioIs(r, v) == r.den # 0 /\ r.num = v * r.den

(* C25: for every pixel dimension d > 0 and every normalized value v in    *)
(* [0, 1000], converting v to pixels and back returns v, and the editor    *)
(* applies the conversion per axis with the image's width for x and the    *)
(* image's height for y.                                                   *)
C25_RoundTripPerAxis ==
    /\ (last.op = "roundtrip") => RatioIs(last.crops[1], last.x)
    /\ (imgRef # NoImage /\ imgLoads = {})
          => /\ canvas.width = naturalWidth(imgRef)
             /\ canvas.height = naturalHeight(imgRef)

\* The pointer of this pointer-move step, normalized and clamped to [0, 1000].
PointerNormX == MathMax(0, MathMin(NormMax, pixelToNorm(last'.x, canvas.width)))
PointerNormY == MathMax(0, MathMin(NormMax, pixelToNorm(last'.y, canvas.height)))

(* C26: in resize mode with handle h, a pointer-move sets each coordinate  *)
(* implied by h (w: xmin, e: xmax, n: ymin, s: ymax) to the pointer's      *)
(* normalized position clamped to [0, 1000] whenever that position is at   *)
(* least 50 units on the proper side of the opposite edge, both            *)
(* coordinates of a corner handle at once, and leaves the two coordinates  *)
(* not implied by h unchanged.                                             *)
C26_ResizeFollowsPointer ==
    [][ResizeStep
        => /\ (Includes(dragHandle, "w") /\ PointerNormX <= SelBox.xmax - MinSize)
                => SelBox'.xmin = PointerNormX
           /\ (Includes(dragHandle, "e") /\ PointerNormX >= SelBox.xmin + MinSize)
                => SelBox'.xmax = PointerNormX
           /\ (Includes(dragHandle, "n") /\ PointerNormY <= SelBox.ymax - MinSize)
                => SelBox'.ymin = PointerNormY
           /\ (Includes(dragHandle, "s") /\ PointerNormY >= SelBox.ymin + MinSize)
                => SelBox'.ymax = PointerNormY
           /\ ~Includes(dragHandle, "w") => SelBox'.xmin = SelBox.xmin
           /\ ~Includes(dragHandle, "e") => SelBox'.xmax = SelBox.xmax
           /\ ~Includes(dragHandle, "n") => SelBox'.ymin = SelBox.ymin
           /\ ~Includes(dragHandle, "s") => SelBox'.ymax = SelBox.ymax]_vars

\* The se handle of the box 100..300 was dragged to (500, 500).
C26_SeDraggedOutwards ==
    /\ last.op = "move"
    /\ dragMode = "resize"
    /\ dragHandle = "se"
    /\ detectedBoxes = <<BoxA>>
    /\ boxes = <<Box(100, 100, 500, 500)>>

\* A move session is going on for the selected box and none of its moves was
\* clamped.
UnclampedMoves ==
    /\ last.op = "move"
    /\ isDragging
    /\ dragMode = "move"
    /\ selectedIndex # NULL
    /\ selectedIndex = moveSession.index
    /\ Defined(boxes, selectedIndex)
    /\ ~moveSession.clamped

(* C27: during a move session, over any sequence of pointer-moves none of  *)
(* which is clamped, the displacement of the selected box from its         *)
(* position at pointer-down equals the pointer's total normalized          *)
(* displacement since pointer-down: each move adds the normalized delta    *)
(* between its pointer position and the previous one, with no drift.       *)
C27_DisplacementEqualsPointerTravel ==
    UnclampedMoves
        => SelBox = Translate(moveSession.box,
                              moveSession.at[1] - moveSession.down[1],
                              moveSession.at[2] - moveSession.down[2])

\* The normalized delta of this move step, from the pointer of the step and
\* the pointer stored by the previous event of the session.
PointerDx == pixelToNorm(last'.x - dragStart.x, canvas.width)
PointerDy == pixelToNorm(last'.y - dragStart.y, canvas.height)

CrossesX == SelBox.xmin + PointerDx < 0 \/ SelBox.xmax + PointerDx > NormMax
CrossesY == SelBox.ymin + PointerDy < 0 \/ SelBox.ymax + PointerDy > NormMax

\* The selected box is on the boundary its x (y) side was carried past, with
\* its width (height) kept.
ClampedInX ==
    /\ Width(SelBox') = Width(SelBox)
    /\ (SelBox.xmin + PointerDx < 0) => SelBox'.xmin = 0
    /\ (SelBox.xmax + PointerDx > NormMax) => SelBox'.xmax = NormMax
ClampedInY ==
    /\ Height(SelBox') = Height(SelBox)
    /\ (SelBox.ymin + PointerDy < 0) => SelBox'.ymin = 0
    /\ (SelBox.ymax + PointerDy > NormMax) => SelBox'.ymax = NormMax

(* C28: move clamping is applied to each axis independently: a move that   *)
(* would cross a boundary on the x axis only is clamped in x and still     *)
(* translated by the full delta in y, and symmetrically; a move that would *)
(* cross on both axes is clamped on each axis to that axis's boundary.     *)
C28_ClampPerAxis ==
    [][(MoveStep /\ InRange(SelBox))
        => /\ CrossesX => ClampedInX
           /\ CrossesY => ClampedInY
           /\ ~CrossesX => (/\ SelBox'.xmin = SelBox.xmin + PointerDx
                            /\ SelBox'.xmax = SelBox.xmax + PointerDx)
           /\ ~CrossesY => (/\ SelBox'.ymin = SelBox.ymin + PointerDy
                            /\ SelBox'.ymax = SelBox.ymax + PointerDy)]_vars

\* The box 100..300 was dragged by (+950, +350): clamped to the right edge
\* and moved by the full 350 downwards.
C28_ClampedRightMovedDown ==
    /\ last.op = "move"
    /\ dragMode = "move"
    /\ nEdits = 2
    /\ detectedBoxes = <<BoxA>>
    /\ boxes = <<Box(800, 450, 1000, 650)>>

\* This pointer-down step took a handle of the selected box.
HandleTaken ==
    /\ dragMode' = "resize"
    /\ isDragging'
    /\ dragHandle' # NoHandle
    /\ selectedIndex' # NULL
    /\ selectedIndex' = selectedIndex

C30_BoxesBelongToShownImage ==
    ReviewOpen => detectedFrom = trayImage

(* C35: in every reachable state the drag-session fields agree: isDragging  *)
(* is true exactly when the drag mode is move or resize, a drag handle is   *)
(* recorded exactly when the mode is resize, and a box is selected whenever *)
(* a session is active.                                                     *)
C35_DragFieldsConsistent ==
    ReviewOpen =>
        /\ isDragging <=> dragMode \in {"move", "resize"}
        /\ dragHandle # NoHandle <=> dragMode = "resize"
        /\ isDragging => selectedIndex # NULL

\* Pointer positions tried inside a box: the canvas pixels that divide its
\* width and its height in GridSteps equal parts, the edges and the centre
\* among them.  The handle regions are the points within tol of a corner on
\* both axes, so the centre is the body point farthest from all of them.
GridSteps == 8

BodyPoints(box) ==
    LET bx == normToPixel(box.xmin, canvas.width)
        by == normToPixel(box.ymin, canvas.height)
        bw == normToPixel(box.xmax - box.xmin, canvas.width)
        bh == normToPixel(box.ymax - box.ymin, canvas.height)
    IN  {<<bx + (bw * kx) \div GridSteps, by + (bh * ky) \div GridSteps>> :
            kx \in 0..GridSteps, ky \in 0..GridSteps}

\* A box is selected that is well formed and at least MinSize wide and high.
SelectedAtLeastMinSize ==
    /\ ReviewOpen
    /\ selectedIndex # NULL
    /\ Defined(boxes, selectedIndex)
    /\ WellFormed(SelBox)
    /\ Width(SelBox) >= MinSize
    /\ Height(SelBox) >= MinSize

(* C36: for every selected box the editor can hold, down to the 50-unit     *)
(* minimum size, a pointer-down at some position inside the box's body      *)
(* starts a move rather than a resize.                                      *)
C36_SelectedBoxCanBeMoved ==
    SelectedAtLeastMinSize
        => \E p \in BodyPoints(SelBox) : DownTarget(p[1], p[2]).kind = "body"

\* The pixel rectangle of box b in image img: left, top, right, bottom.
PixelLeft(b, img) == (b.xmin * naturalWidth(img)) \div 1000
PixelTop(b, img) == (b.ymin * naturalHeight(img)) \div 1000
PixelRight(b, img) == PixelLeft(b, img) + ((b.xmax - b.xmin) * naturalWidth(img)) \div 1000
PixelBottom(b, img) == PixelTop(b, img) + ((b.ymax - b.ymin) * naturalHeight(img)) \div 1000

(* C32: for every box with coordinates within [0,1000], xmin < xmax and     *)
(* ymin < ymax, the exported crop region lies within the image (0 <= sx,    *)
(* sx+sw <= imageWidth, 0 <= sy, sy+sh <= imageHeight), has positive width  *)
(* and height, and contains the whole pixel rectangle of the box.           *)
C32_CropInsideImageAroundBox ==
    [][(last'.op = "confirm" /\ last'.called)
        => \A k \in 1..Len(boxes) :
              ((\A j \in 1..k : boxes[j] # Hole) /\ WellFormed(boxes[k]))
              => LET c == last'.crops[k]
                 IN  /\ 0 <= c.sx
                     /\ c.sx + c.sw <= naturalWidth(imgRef)
                     /\ 0 <= c.sy
                     /\ c.sy + c.sh <= naturalHeight(imgRef)
                     /\ c.sw > 0
                     /\ c.sh > 0
                     /\ c.sx <= PixelLeft(boxes[k], imgRef)
                     /\ PixelRight(boxes[k], imgRef) <= c.sx + c.sw
                     /\ c.sy <= PixelTop(boxes[k], imgRef)
                     /\ PixelBottom(boxes[k], imgRef) <= c.sy + c.sh]_vars

\* A box that covers the whole small image was exported: the region is cut
\* on all four sides.
C32_WholeImageExported ==
    /\ last.op = "confirm"
    /\ last.called
    /\ Len(last.crops) = 1
    /\ last.crops[1] = [img |-> "tray-small", sx |-> 0, sy |-> 0,
                        sw |-> naturalWidth("tray-small"),
                        sh |-> naturalHeight("tray-small")]

----------------------------------------------------------------------------
(* C31: after any sequence of event creations, deletions and updates, what  *)
(* the mount effect would read from the persisted store equals the          *)
(* in-memory list of events, so a reload restores exactly the events that   *)
(* existed before it and a deleted event does not come back.                *)
C31_StoreEqualsEvents == LoadEffect(storage) = events

----------------------------------------------------------------------------
\* The vote records of an event that name a cookie.
VoteRecordsOf(ev, cookieId) ==
    Cardinality({i \in 1..Len(ev.votes) : ev.votes[i].cookieId = cookieId})

(* C33: in every reachable state, the votes counter of each cookie of each  *)
(* event equals the number of vote records of that event whose cookieId is  *)
(* the cookie's id.                                                         *)
C33_VotesCounterMatchesRecords ==
    \A i \in 1..Len(events) :
        \A k \in 1..Len(events[i].cookies) :
            events[i].cookies[k].votes
                = VoteRecordsOf(events[i], events[i].cookies[k].id)

\* An event holds two cookies and one vote record: one cookie was voted for,
\* the other was not.
C33_OneOfTwoCookiesVoted ==
    \E i \in 1..Len(events) :
        /\ Len(events[i].cookies) = 2
        /\ Len(events[i].votes) = 1
        /\ \E k \in 1..2 : events[i].cookies[k].votes = 1
        /\ \E k \in 1..2 : events[i].cookies[k].votes = 0

----------------------------------------------------------------------------
(* C34: a click on a cookie of the vote view appends exactly one vote       *)
(* record, for that cookie and the displayed category, to the current       *)
(* event, and then shows the category after the displayed one, or the       *)
(* results when the displayed category is the last.                         *)
C34_ClickVotesInDisplayedCategory ==
    [][(last'.op = "vote")
        => /\ events'[FindEvent(events', currentEventId)].votes
                = Append(CurrentEvent.votes,
                         [categoryId |-> last'.cat, cookieId |-> last'.name[1]])
           /\ IF safeIndex < Len(CurrentEvent.categories) - 1
              THEN view' = "vote" /\ currentVoteCategory' = safeIndex + 1
              ELSE view' = "results"]_vars

============================================================================
